---- MODULE Spec2Model ----
(***************************************************************************)
(* Model of the karaoke scoring engine (composable useScoring), of the     *)
(* player component that drives it (KaraokePlayer.vue) and of the final    *)
(* rank computation.                                                       *)
(*                                                                         *)
(* Units.  Times are integers counting 0.15 s (so the 0.15 s trailing      *)
(* window is 1).  Estimates are integers counting half semitones (so an    *)
(* octave is 24 and the tolerance 0.5 of 'Dificil' is 1).  Thresholds are  *)
(* percentages (0.25 is 25) and percent >= threshold is compared exactly:  *)
(* sungDuration / duration >= th / 100 as sungDuration * 300 >= th * (3 *  *)
(* duration), where 3 * duration is 2 for the fallback duration 0.1 s.     *)
(***************************************************************************)
EXTENDS Integers, Sequences, FiniteSets, TLC

(***************************************************************************)
(* Bounds of the model.                                                    *)
(***************************************************************************)
\* largest value of the playback clock
MaxTime == 7
\* largest number of pending 500 ms golden-pulse timers
MaxGoldenTimers == 2

(***************************************************************************)
(* Program constants.                                                      *)
(***************************************************************************)
\* const TRAILING_WINDOW = 0.15
TRAILING_WINDOW == 1
\* 12 semitones, in half semitones
Octave == 12 * 2

\* an optional value (null / undefined, or a value v) is << >> or << v >>
Null == << >>
Some(v) == << v >>
NoPitch == Null
NoPlayer == Null

\* the difficulty names the player offers, and 'Normal' (the default branch)
Difficulties == {"Freestyle", "Fácil", "Normal", "Difícil"}
Players == {NoPlayer, Some(1), Some(2)}

\* values of detectedPitch: no pitch, or a MIDI value in half semitones
Pitches == {NoPitch, Some(120), Some(124)}

(***************************************************************************)
(* The songs handed to useScoring (props.song.lines): lines in start time  *)
(* order, each with a player tag and words of notes.  The first song has   *)
(* one regular note of player 1, the second one golden note of player 2,   *)
(* the third a freestyle note and a note with a negative duration field    *)
(* (': 5 -1 0 x', which parseUltraStar accepts) in a line of no player.    *)
(***************************************************************************)
Note(i, ty, s, e, p) == [id |-> i, type |-> ty, startTime |-> s, endTime |-> e, pitch |-> p]

Songs ==
  { << [player |-> Some(1),  words |-> << << Note(1, ":", 1, 5, 0) >> >>] >>,
    << [player |-> Some(2),  words |-> << << Note(2, "*", 1, 3, 11) >> >>] >>,
    << [player |-> NoPlayer, words |-> << << Note(3, "F", 1, 3, 4) >>, << Note(4, ":", 5, 4, 0) >> >>] >> }

\* a duet chart: lines in start time order, the first of player 1 (its second
\* note starts after the notes of the later lines), the second of player 2,
\* the third of no player
DuetSongs ==
  { << [player |-> Some(1),  words |-> << << Note(5, ":", 1, 2, 0) >>, << Note(6, ":", 5, 6, 0) >> >>],
       [player |-> Some(2),  words |-> << << Note(7, ":", 3, 4, 0) >> >>],
       [player |-> NoPlayer, words |-> << << Note(8, ":", 4, 5, 0) >> >>] >> }

RECURSIVE Flatten(_)
Flatten(ss) == IF ss = << >> THEN << >> ELSE Head(ss) \o Flatten(Tail(ss))

SongNotes(ls) == Flatten(Flatten([i \in 1..Len(ls) |-> ls[i].words]))
NoteSet(ls) == {SongNotes(ls)[i] : i \in 1..Len(SongNotes(ls))}
NoteIds == {n.id : n \in UNION {NoteSet(ls) : ls \in Songs \cup DuetSongs}}
NoteTable == [i \in NoteIds |-> CHOOSE n \in UNION {NoteSet(ls) : ls \in Songs \cup DuetSongs} : n.id = i]
NoteOf(i) == NoteTable[i]

Min(a, b) == IF a <= b THEN a ELSE b
Abs(a) == IF a < 0 THEN -a ELSE a

\* Array.prototype.sort with (a, b) => a.startTime - b.startTime: stable
RECURSIVE InsertByStart(_, _)
InsertByStart(n, s) ==
  IF s = << >> THEN << n >>
  ELSE IF n.startTime < Head(s).startTime THEN << n >> \o s
  ELSE << Head(s) >> \o InsertByStart(n, Tail(s))

RECURSIVE SortByStart(_)
SortByStart(s) ==
  IF s = << >> THEN << >>
  ELSE InsertByStart(s[Len(s)], SortByStart(SubSeq(s, 1, Len(s) - 1)))

\* as LineSelected, without the test line.player !== undefined
LineSelectedTagged(line, player) ==
  ~(player # NoPlayer /\ line.player # player)

\* the player filter of allNotes
LineSelected(line, player) ==
  ~(player # NoPlayer /\ line.player # NoPlayer /\ line.player # player)

RECURSIVE LinesNotes(_, _)
LinesNotes(ls, player) ==
  IF ls = << >> THEN << >>
  ELSE (IF LineSelected(Head(ls), player) THEN Flatten(Head(ls).words) ELSE << >>)
       \o LinesNotes(Tail(ls), player)

allNotes(ls, player) == SortByStart(LinesNotes(ls, player))

AllNoteIds(ls, player) == {allNotes(ls, player)[i].id : i \in 1..Len(allNotes(ls, player))}

isGolden(note) == note.type = "*" \/ note.type = "G"

(***************************************************************************)
(* Difficulty settings: points, pitch tolerance (half semitones) and the   *)
(* thresholds, in percent of the note's duration.                          *)
(***************************************************************************)
settings(diff) ==
  CASE diff = "Freestyle" ->
         [points |-> 0, pitchTol |-> 0, thresholds |-> [ok |-> 100, good |-> 100, excellent |-> 100]]
    [] diff = "Fácil" ->
         [points |-> 10, pitchTol |-> 4, thresholds |-> [ok |-> 20, good |-> 40, excellent |-> 60]]
    [] diff \in {"SingStar!", "Difícil"} ->
         [points |-> 30, pitchTol |-> 1, thresholds |-> [ok |-> 40, good |-> 60, excellent |-> 85]]
    [] OTHER ->
         [points |-> 20, pitchTol |-> 2, thresholds |-> [ok |-> 25, good |-> 50, excellent |-> 75]]

(***************************************************************************)
(* The state of one useScoring instance, as a record: the refs and the     *)
(* closure variables of the composable.  feedbackTimeout is TRUE while the *)
(* 1000 ms timer that clears lastFeedback is pending; goldenTimeouts is    *)
(* the number of pending 500 ms timers that clear goldenNoteHit.           *)
(* awards and heard are history fields: awards[n] lists what each          *)
(* finalization of note n added (grade, earned) since the last   *)
(* reset, heard[n] tells whether a processed tick inside n's window found  *)
(* a pitch estimate since the last reset.                                  *)
(***************************************************************************)
ZeroStats == [ok |-> 0, good |-> 0, excellent |-> 0, perfect |-> 0]

NewEngine ==
  [score |-> 0, totalMaxScore |-> 0, currentMaxScore |-> 0,
   goldenNoteHit |-> FALSE, lastFeedback |-> Null, noteStats |-> ZeroStats,
   noteStates |-> << >>, lastTime |-> 0,
   feedbackTimeout |-> FALSE, goldenTimeouts |-> 0,
   awards |-> [n \in NoteIds |-> << >>], heard |-> [n \in NoteIds |-> FALSE]]

\* noteStates.set(key, value)
MapSet(m, k, v) == [x \in DOMAIN m \cup {k} |-> IF x = k THEN v ELSE m[x]]

\* as InitNoteStates, but every note gets a new state (no noteStates.has test)
RECURSIVE InitNoteStatesAlwaysNew(_, _, _)
InitNoteStatesAlwaysNew(states, notes, points) ==
  IF notes = << >> THEN states
  ELSE LET note == Head(notes)
           noteScore == points * (IF isGolden(note) THEN 2 ELSE 1)
           st == [sungDuration |-> 0, isScored |-> FALSE, maxScore |-> noteScore]
       IN InitNoteStatesAlwaysNew(MapSet(states, note.id, st), Tail(notes), points)

\* as InitNoteStates, but an existing state keeps its maxScore
RECURSIVE InitNoteStatesKeepMax(_, _, _)
InitNoteStatesKeepMax(states, notes, points) ==
  IF notes = << >> THEN states
  ELSE LET note == Head(notes)
           noteScore == points * (IF isGolden(note) THEN 2 ELSE 1)
           st == IF note.id \notin DOMAIN states
                 THEN [sungDuration |-> 0, isScored |-> FALSE, maxScore |-> noteScore]
                 ELSE states[note.id]
       IN InitNoteStatesKeepMax(MapSet(states, note.id, st), Tail(notes), points)

RECURSIVE InitNoteStates(_, _, _)
InitNoteStates(states, notes, points) ==
  IF notes = << >> THEN states
  ELSE LET note == Head(notes)
           noteScore == points * (IF isGolden(note) THEN 2 ELSE 1)
           st == IF note.id \notin DOMAIN states
                 THEN [sungDuration |-> 0, isScored |-> FALSE, maxScore |-> noteScore]
                 ELSE [states[note.id] EXCEPT !.maxScore = noteScore]
       IN InitNoteStates(MapSet(states, note.id, st), Tail(notes), points)

RECURSIVE SumMaxScore(_, _)
SumMaxScore(notes, points) ==
  IF notes = << >> THEN 0
  ELSE points * (IF isGolden(Head(notes)) THEN 2 ELSE 1) + SumMaxScore(Tail(notes), points)

calculateTotalMaxScore(e, ls, diff, player) ==
  IF diff = "Freestyle" THEN [e EXCEPT !.totalMaxScore = 0]
  ELSE [e EXCEPT !.noteStates = InitNoteStates(@, allNotes(ls, player), settings(diff).points),
                 !.totalMaxScore = SumMaxScore(allNotes(ls, player), settings(diff).points)]

(***************************************************************************)
(* The hit decision of the currentTime watcher, for a pitch estimate est.  *)
(***************************************************************************)
\* as normalizedDiff, without the wrap Math.min(octaveDiff, 12 - octaveDiff)
normalizedDiffNoWrap(est, note) ==
  LET pitchDiff == Abs(est - note.pitch * 2)
  IN Abs(pitchDiff % Octave)

normalizedDiff(est, note) ==
  LET pitchDiff == Abs(est - note.pitch * 2)
      octaveDiff == Abs(pitchDiff % Octave)
  IN Min(octaveDiff, Octave - octaveDiff)

IsHit(est, note, diff) ==
  IF note.type = "F" \/ diff = "Freestyle" THEN TRUE
  ELSE normalizedDiff(est, note) <= settings(diff).pitchTol

FeedbackText(type) ==
  CASE type = "perfect" -> "Perfeito!"
    [] type = "excellent" -> "Excelente"
    [] type = "good" -> "Bom"
    [] OTHER -> "Ok"

\* as Tier, with > in place of >=
TierStrict(note, sung, diff) ==
  LET noteDuration == note.endTime - note.startTime
      duration3 == IF noteDuration > 0 THEN 3 * noteDuration ELSE 2
      th == settings(diff).thresholds
  IN IF sung * 300 > th.excellent * duration3
     THEN (IF isGolden(note) THEN "perfect" ELSE "excellent")
     ELSE IF sung * 300 > th.good * duration3 THEN "good"
     ELSE IF sung * 300 > th.ok * duration3 THEN "ok"
     ELSE "none"

\* the tier reached by a note with the given sungDuration; "none" is no feedbackType
Tier(note, sung, diff) ==
  LET noteDuration == note.endTime - note.startTime
      \* Avoid division by zero: 0.1 s is 2/3 of the time unit
      duration3 == IF noteDuration > 0 THEN 3 * noteDuration ELSE 2
      th == settings(diff).thresholds
  IN IF sung * 300 >= th.excellent * duration3
     THEN (IF isGolden(note) THEN "perfect" ELSE "excellent")
     ELSE IF sung * 300 >= th.good * duration3 THEN "good"
     ELSE IF sung * 300 >= th.ok * duration3 THEN "ok"
     ELSE "none"

Earned(tier, points) ==
  CASE tier = "perfect" -> points * 2
    [] tier = "excellent" -> points
    [] tier = "good" -> (points * 2) \div 3
    [] tier = "ok" -> points \div 3
    [] OTHER -> 0

scoreNote(e, note, diff) ==
  LET state == e.noteStates[note.id] IN
  IF state.isScored THEN e
  ELSE IF diff = "Freestyle" THEN [e EXCEPT !.noteStates[note.id].isScored = TRUE]
  ELSE
    LET points == settings(diff).points
        feedbackType == Tier(note, state.sungDuration, diff)
        earned == Earned(feedbackType, points)
        pulse == feedbackType = "perfect" /\ ~e.goldenNoteHit
        count == IF e.lastFeedback = Null THEN 0 ELSE e.lastFeedback[1].count
    IN [e EXCEPT
          !.noteStats = IF feedbackType = "none" THEN @
                        ELSE [@ EXCEPT ![feedbackType] = @ + 1],
          !.goldenNoteHit = @ \/ pulse,
          !.goldenTimeouts = IF pulse THEN @ + 1 ELSE @,
          !.score = IF feedbackType = "none" THEN @ ELSE @ + earned,
          !.lastFeedback = IF feedbackType = "none" THEN @
                           ELSE Some([text |-> FeedbackText(feedbackType),
                                      type |-> feedbackType, count |-> count + 1]),
          !.feedbackTimeout = @ \/ feedbackType # "none",
          !.currentMaxScore = @ + state.maxScore,
          !.noteStates[note.id].isScored = TRUE,
          !.awards[note.id] = Append(@, [grade |-> feedbackType, earned |-> earned])]

(***************************************************************************)
(* One note of the loop of the currentTime watcher, and the loop.          *)
(***************************************************************************)
\* as processNote, with the finalization nested in the pitch test
processNoteNested(e, note, newTime, dt, pitch, diff) ==
  IF note.id \notin DOMAIN e.noteStates THEN e
  ELSE IF e.noteStates[note.id].isScored THEN e
  ELSE
    LET state == e.noteStates[note.id]
        noteDuration == note.endTime - note.startTime
        inWindow == newTime >= note.startTime /\ newTime <= note.endTime + TRAILING_WINDOW
        present == inWindow /\ pitch # NoPitch
        hit == present /\ IsHit(pitch[1], note, diff)
        sung == IF hit /\ state.sungDuration < noteDuration
                THEN Min(state.sungDuration + dt, noteDuration)
                ELSE state.sungDuration
        e1 == [e EXCEPT !.noteStates[note.id].sungDuration = sung,
                        !.heard[note.id] = @ \/ present]
    IN IF pitch # NoPitch /\ newTime > note.endTime + TRAILING_WINDOW
       THEN scoreNote(e1, note, diff) ELSE e1

\* as processNote, with the freestyle test before the test for a pitch
processNoteFreestyleFirst(e, note, newTime, dt, pitch, diff) ==
  IF note.id \notin DOMAIN e.noteStates THEN e
  ELSE IF e.noteStates[note.id].isScored THEN e
  ELSE
    LET state == e.noteStates[note.id]
        noteDuration == note.endTime - note.startTime
        inWindow == newTime >= note.startTime /\ newTime <= note.endTime + TRAILING_WINDOW
        present == inWindow /\ pitch # NoPitch
        hit == IF note.type = "F" \/ diff = "Freestyle" THEN inWindow
               ELSE present /\ IsHit(pitch[1], note, diff)
        sung == IF hit /\ state.sungDuration < noteDuration
                THEN Min(state.sungDuration + dt, noteDuration)
                ELSE state.sungDuration
        e1 == [e EXCEPT !.noteStates[note.id].sungDuration = sung,
                        !.heard[note.id] = @ \/ present]
    IN IF newTime > note.endTime + TRAILING_WINDOW THEN scoreNote(e1, note, diff) ELSE e1

processNote(e, note, newTime, dt, pitch, diff) ==
  IF note.id \notin DOMAIN e.noteStates THEN e
  ELSE IF e.noteStates[note.id].isScored THEN e
  ELSE
    LET state == e.noteStates[note.id]
        noteDuration == note.endTime - note.startTime
        inWindow == newTime >= note.startTime /\ newTime <= note.endTime + TRAILING_WINDOW
        present == inWindow /\ pitch # NoPitch
        hit == present /\ IsHit(pitch[1], note, diff)
        sung == IF hit /\ state.sungDuration < noteDuration
                THEN Min(state.sungDuration + dt, noteDuration)
                ELSE state.sungDuration
        e1 == [e EXCEPT !.noteStates[note.id].sungDuration = sung,
                        !.heard[note.id] = @ \/ present]
    IN IF newTime > note.endTime + TRAILING_WINDOW THEN scoreNote(e1, note, diff) ELSE e1

RECURSIVE processNotes(_, _, _, _, _, _)
processNotes(e, notes, newTime, dt, pitch, diff) ==
  IF notes = << >> THEN e
  ELSE processNotes(processNote(e, Head(notes), newTime, dt, pitch, diff),
                    Tail(notes), newTime, dt, pitch, diff)

\* as currentTimeWatcher, without the test of isPlaying
currentTimeWatcherPaused(e, ls, newTime, playing, pitch, diff, player) ==
  LET dt == newTime - e.lastTime
      e1 == [e EXCEPT !.lastTime = newTime]
  IN IF dt <= 0 THEN e1
     ELSE processNotes(e1, allNotes(ls, player), newTime, dt, pitch, diff)

\* watch(currentTime, (newTime) => ...)
currentTimeWatcher(e, ls, newTime, playing, pitch, diff, player) ==
  IF ~playing THEN [e EXCEPT !.lastTime = newTime]
  ELSE LET dt == newTime - e.lastTime
           e1 == [e EXCEPT !.lastTime = newTime]
       IN IF dt <= 0 THEN e1
          ELSE processNotes(e1, allNotes(ls, player), newTime, dt, pitch, diff)

\* as resetScore, without noteStats.perfect = 0
resetScoreKeepPerfect(e) ==
  [e EXCEPT !.score = 0,
            !.currentMaxScore = 0,
            !.lastTime = 0,
            !.goldenNoteHit = FALSE,
            !.lastFeedback = Null,
            !.noteStats = [@ EXCEPT !.ok = 0, !.good = 0, !.excellent = 0],
            !.noteStates = [n \in DOMAIN @ |-> [@[n] EXCEPT !.sungDuration = 0, !.isScored = FALSE]],
            !.awards = [n \in NoteIds |-> << >>],
            !.heard = [n \in NoteIds |-> FALSE]]

\* as resetScore, without lastTime = 0
resetScoreKeepLastTime(e) ==
  [e EXCEPT !.score = 0,
            !.currentMaxScore = 0,
            !.goldenNoteHit = FALSE,
            !.lastFeedback = Null,
            !.noteStats = ZeroStats,
            !.noteStates = [n \in DOMAIN @ |-> [@[n] EXCEPT !.sungDuration = 0, !.isScored = FALSE]],
            !.awards = [n \in NoteIds |-> << >>],
            !.heard = [n \in NoteIds |-> FALSE]]

resetScore(e) ==
  [e EXCEPT !.score = 0,
            !.currentMaxScore = 0,
            !.lastTime = 0,
            !.goldenNoteHit = FALSE,
            !.lastFeedback = Null,
            !.noteStats = ZeroStats,
            !.noteStates = [n \in DOMAIN @ |-> [@[n] EXCEPT !.sungDuration = 0, !.isScored = FALSE]],
            !.awards = [n \in NoteIds |-> << >>],
            !.heard = [n \in NoteIds |-> FALSE]]

\* useScoring(...): the refs, then the immediate watcher on [allNotes, difficulty]
useScoring(ls, diff, player) == calculateTotalMaxScore(NewEngine, ls, diff, player)

(***************************************************************************)
(* State.  The first block is the state of useScoring, the second the      *)
(* arguments KaraokePlayer hands to it (lines is props.song.lines,         *)
(* currentTime the computed currentTime + globalOffset).  The detected     *)
(* pitch is read by the currentTime watcher when it runs; it is an input   *)
(* of the tick.  fresh is a second useScoring instance (see ReplaySpec),   *)
(* rank the rank handed to the results screen (see RankSpec).              *)
(***************************************************************************)
VARIABLES score, totalMaxScore, currentMaxScore, goldenNoteHit, lastFeedback,
          noteStats, noteStates, lastTime, feedbackTimeout, goldenTimeouts,
          awards, heard,
          lines, currentTime, difficulty, isPlaying, selectedPlayer,
          fresh, rank

(***************************************************************************)
(* The chart parser: chart is the text handed to parseUltraStar (its raw   *)
(* lines), song the Song it returned, null before the call.                *)
(***************************************************************************)
VARIABLES chart, song

parserVars == << chart, song >>

\* no chart is being parsed
ParserIdle == chart = << >> /\ song = Null

(***************************************************************************)
(* The pitch detector (composable usePitchDetector).  audioContext is null *)
(* or tells whether the context is closed; analyser tells whether the      *)
(* analyser is set; mediaStream is null or tells whether the tracks of the *)
(* stream it refers to are live; leakedStreams counts the live streams     *)
(* that mediaStream no longer refers to; pendingStarts counts the start()  *)
(* calls waiting for getUserMedia; loops counts the scheduled updatePitch  *)
(* animation frames; animationId is undefined (null) or tells whether the  *)
(* frame request it names is still scheduled.  fed holds the valid samples *)
(* handed to getSmoothedPitch since the buffer was last emptied, lastFreq  *)
(* the result of autoCorrelate in the latest frame, and stopped tells that *)
(* stop() was called and start() was not called since.                     *)
(***************************************************************************)
VARIABLES audioContext, analyser, mediaStream, leakedStreams, pendingStarts,
          pitchBuffer, rawPitch, loops, animationId, fed, lastFreq, stopped

detectorVars == << audioContext, analyser, mediaStream, leakedStreams, pendingStarts,
                   pitchBuffer, rawPitch, loops, animationId, fed, lastFreq, stopped >>

\* usePitchDetector(): the refs and the empty smoothing buffer
DetectorIdle ==
  /\ audioContext = Null
  /\ analyser = FALSE
  /\ mediaStream = Null
  /\ leakedStreams = 0
  /\ pendingStarts = 0
  /\ pitchBuffer = << >>
  /\ rawPitch = Null
  /\ loops = 0
  /\ animationId = Null
  /\ fed = << >>
  /\ lastFreq = Null
  /\ stopped = FALSE

(***************************************************************************)
(* The pitch calibration dialog (src/unnamed/part_009).  status,           *)
(* currentNoteIndex, isRecording, recordedPitches, calculatedOffset,       *)
(* countdown and detectedPitch are its refs; pitch values are hundredths   *)
(* of a semitone.                                                          *)
(* referencePlaying is its ref isPlaying, referenceTimeouts the number of  *)
(* pending 2 s timers that stop the reference tone, micPending tells that  *)
(* getUserMedia has not answered yet and micAnalyser that the analyser of  *)
(* the dialog is set.  The refs detectedNote and volume, which only feed   *)
(* the display, are left out.                                              *)
(***************************************************************************)
VARIABLES status, currentNoteIndex, isRecording, recordedPitches, calculatedOffset,
          countdown, detectedPitch, referencePlaying, referenceTimeouts, micPending, micAnalyser

calibrationVars == << status, currentNoteIndex, isRecording, recordedPitches,
                      calculatedOffset, countdown, detectedPitch, referencePlaying,
                      referenceTimeouts, micPending, micAnalyser >>

\* the refs of the dialog, and onMounted: startMicrophoneDetection() waits
\* for getUserMedia
CalibrationIdle ==
  /\ status = "idle"
  /\ currentNoteIndex = 0
  /\ isRecording = FALSE
  /\ recordedPitches = << << >>, << >>, << >> >>
  /\ calculatedOffset = 0
  /\ countdown = 0
  /\ detectedPitch = Null
  /\ referencePlaying = FALSE
  /\ referenceTimeouts = 0
  /\ micPending = TRUE
  /\ micAnalyser = FALSE

engineVars == << score, totalMaxScore, currentMaxScore, goldenNoteHit, lastFeedback,
                 noteStats, noteStates, lastTime, feedbackTimeout, goldenTimeouts,
                 awards, heard >>
vars == << score, totalMaxScore, currentMaxScore, goldenNoteHit, lastFeedback,
           noteStats, noteStates, lastTime, feedbackTimeout, goldenTimeouts,
           awards, heard,
           lines, currentTime, difficulty, isPlaying, selectedPlayer, fresh, rank, parserVars, detectorVars, calibrationVars >>

Engine ==
  [score |-> score, totalMaxScore |-> totalMaxScore, currentMaxScore |-> currentMaxScore,
   goldenNoteHit |-> goldenNoteHit, lastFeedback |-> lastFeedback, noteStats |-> noteStats,
   noteStates |-> noteStates, lastTime |-> lastTime,
   feedbackTimeout |-> feedbackTimeout, goldenTimeouts |-> goldenTimeouts,
   awards |-> awards, heard |-> heard]

SetEngine(e0) ==
  LET e == e0 IN
  /\ score' = e.score
  /\ totalMaxScore' = e.totalMaxScore
  /\ currentMaxScore' = e.currentMaxScore
  /\ goldenNoteHit' = e.goldenNoteHit
  /\ lastFeedback' = e.lastFeedback
  /\ noteStats' = e.noteStats
  /\ noteStates' = e.noteStates
  /\ lastTime' = e.lastTime
  /\ feedbackTimeout' = e.feedbackTimeout
  /\ goldenTimeouts' = e.goldenTimeouts
  /\ awards' = e.awards
  /\ heard' = e.heard

HasEngine(e) ==
  /\ score = e.score
  /\ totalMaxScore = e.totalMaxScore
  /\ currentMaxScore = e.currentMaxScore
  /\ goldenNoteHit = e.goldenNoteHit
  /\ lastFeedback = e.lastFeedback
  /\ noteStats = e.noteStats
  /\ noteStates = e.noteStates
  /\ lastTime = e.lastTime
  /\ feedbackTimeout = e.feedbackTimeout
  /\ goldenTimeouts = e.goldenTimeouts
  /\ awards = e.awards
  /\ heard = e.heard

\* KaraokePlayer: selectedDifficulty = 'Fácil', selectedPlayer undefined, not playing
Init ==
  /\ lines \in Songs
  /\ difficulty = "Fácil"
  /\ selectedPlayer = NoPlayer
  /\ isPlaying = FALSE
  /\ currentTime = 0
  /\ fresh = Null
  /\ rank = Null
  /\ HasEngine(useScoring(lines, "Fácil", NoPlayer))
  /\ ParserIdle
  /\ DetectorIdle
  /\ CalibrationIdle

\* with (TRUE) or without (FALSE) the second instance
Replay(on, f) == IF on THEN f ELSE Null

\* handleTimeUpdate / seekTo / a change of globalOffset: the clock takes a new
\* value and the currentTime watcher runs, reading the detected pitch
TimeUpdate(newTime, pitch) ==
  /\ newTime # currentTime
  /\ currentTime' = newTime
  /\ SetEngine(currentTimeWatcher(Engine, lines, newTime, isPlaying, pitch,
                                  difficulty, selectedPlayer))
  /\ fresh' = IF fresh = Null THEN Null
              ELSE Some(currentTimeWatcher(fresh[1], lines, newTime, isPlaying, pitch,
                                           difficulty, selectedPlayer))
  /\ UNCHANGED << lines, difficulty, isPlaying, selectedPlayer, rank, parserVars, detectorVars, calibrationVars >>

\* handlePlayingUpdate, PlayerControls, startGame, handlePlayerEnded
PlayingUpdate(b) ==
  /\ b # isPlaying
  /\ isPlaying' = b
  /\ UNCHANGED << engineVars, lines, currentTime, difficulty, selectedPlayer, fresh, rank, parserVars, detectorVars, calibrationVars >>

\* @update:difficulty, then the watcher on [allNotes, difficulty]
DifficultyUpdate(d) ==
  /\ d # difficulty
  /\ fresh = Null
  /\ difficulty' = d
  /\ SetEngine(calculateTotalMaxScore(Engine, lines, d, selectedPlayer))
  /\ UNCHANGED << lines, currentTime, isPlaying, selectedPlayer, fresh, rank, parserVars, detectorVars, calibrationVars >>

\* @update:player, then the watcher on [allNotes, difficulty]
PlayerUpdate(p) ==
  /\ p # selectedPlayer
  /\ fresh = Null
  /\ selectedPlayer' = p
  /\ SetEngine(calculateTotalMaxScore(Engine, lines, difficulty, p))
  /\ UNCHANGED << lines, currentTime, difficulty, isPlaying, fresh, rank, parserVars, detectorVars, calibrationVars >>

\* resetScore(), exported by useScoring
ResetScore(replay) ==
  /\ goldenTimeouts < MaxGoldenTimers
  /\ SetEngine(resetScore(Engine))
  /\ fresh' = Replay(replay, Some(useScoring(lines, difficulty, selectedPlayer)))
  /\ UNCHANGED << lines, currentTime, difficulty, isPlaying, selectedPlayer, rank, parserVars, detectorVars, calibrationVars >>

\* restartSong: seekTo(0); resetScore(); playing = true; then the currentTime
\* watcher runs for the new clock value 0 (globalOffset 0)
RestartSong(replay) ==
  /\ goldenTimeouts < MaxGoldenTimers
  /\ currentTime' = 0
  /\ isPlaying' = TRUE
  /\ SetEngine(IF currentTime = 0 THEN resetScore(Engine)
               ELSE currentTimeWatcher(resetScore(Engine), lines, 0, TRUE, NoPitch,
                                       difficulty, selectedPlayer))
  /\ fresh' = Replay(replay, Some(useScoring(lines, difficulty, selectedPlayer)))
  /\ UNCHANGED << lines, difficulty, selectedPlayer, rank, parserVars, detectorVars, calibrationVars >>

\* feedbackTimeout fires: lastFeedback.value = null
FeedbackTimeout ==
  /\ feedbackTimeout
  /\ feedbackTimeout' = FALSE
  /\ lastFeedback' = Null
  /\ UNCHANGED << score, totalMaxScore, currentMaxScore, goldenNoteHit, noteStats,
                  noteStates, lastTime, goldenTimeouts, awards, heard,
                  lines, currentTime, difficulty, isPlaying, selectedPlayer, fresh, rank, parserVars, detectorVars, calibrationVars >>

\* a golden-pulse timer fires: goldenNoteHit.value = false
GoldenTimeout ==
  /\ goldenTimeouts > 0
  /\ goldenTimeouts' = goldenTimeouts - 1
  /\ goldenNoteHit' = FALSE
  /\ UNCHANGED << score, totalMaxScore, currentMaxScore, lastFeedback, noteStats,
                  noteStates, lastTime, feedbackTimeout, awards, heard,
                  lines, currentTime, difficulty, isPlaying, selectedPlayer, fresh, rank, parserVars, detectorVars, calibrationVars >>

Next ==
  \/ \E t \in 0..MaxTime, p \in Pitches : TimeUpdate(t, p)
  \/ \E b \in BOOLEAN : PlayingUpdate(b)
  \/ \E d \in Difficulties : DifficultyUpdate(d)
  \/ \E p \in Players : PlayerUpdate(p)
  \/ ResetScore(FALSE)
  \/ RestartSong(FALSE)
  \/ FeedbackTimeout
  \/ GoldenTimeout

Spec == Init /\ [][Next]_vars

(***************************************************************************)
(* The same program with a second instance: at every reset a useScoring    *)
(* instance is built for the same lines, difficulty and player, and from   *)
(* then on it receives the same ticks.  The difficulty and the player are  *)
(* chosen before the reset.                                                *)
(***************************************************************************)
ReplayNext ==
  \/ \E t \in 0..MaxTime, p \in Pitches : TimeUpdate(t, p)
  \/ \E b \in BOOLEAN : PlayingUpdate(b)
  \/ \E d \in Difficulties : DifficultyUpdate(d)
  \/ \E p \in Players : PlayerUpdate(p)
  \/ ResetScore(TRUE)
  \/ RestartSong(TRUE)
  \/ FeedbackTimeout
  \/ GoldenTimeout

ReplaySpec == Init /\ [][ReplayNext]_vars

(***************************************************************************)
(* A session on a duet chart at the default difficulty: ticks, play and    *)
(* pause, the choice of the player, and resets.                            *)
(***************************************************************************)
DuetInit ==
  /\ lines \in DuetSongs
  /\ difficulty = "Fácil"
  /\ selectedPlayer = NoPlayer
  /\ isPlaying = FALSE
  /\ currentTime = 0
  /\ fresh = Null
  /\ rank = Null
  /\ HasEngine(useScoring(lines, "Fácil", NoPlayer))
  /\ ParserIdle
  /\ DetectorIdle
  /\ CalibrationIdle

DuetNext ==
  \/ \E t \in 0..MaxTime, p \in Pitches : TimeUpdate(t, p)
  \/ \E b \in BOOLEAN : PlayingUpdate(b)
  \/ \E p \in Players : PlayerUpdate(p)
  \/ ResetScore(FALSE)
  \/ FeedbackTimeout

DuetSpec == DuetInit /\ [][DuetNext]_vars

(***************************************************************************)
(* The final rank of the results screen (KaraokePlayer.vue, finalRank),    *)
(* applied to difficulties, scores and totals drawn from bounded sets.     *)
(***************************************************************************)
\* as finalRank, with > in place of >=
finalRankStrict(diff, total, sc) ==
  IF diff = "Freestyle" THEN "FREESTYLE"
  ELSE IF total = 0 THEN "F"
  ELSE IF sc * 100 > 95 * total THEN "SS"
  ELSE IF sc * 100 > 90 * total THEN "S"
  ELSE IF sc * 100 > 80 * total THEN "A"
  ELSE IF sc * 100 > 70 * total THEN "B"
  ELSE IF sc * 100 > 60 * total THEN "C"
  ELSE IF sc * 100 > 40 * total THEN "D"
  ELSE "F"

finalRank(diff, total, sc) ==
  IF diff = "Freestyle" THEN "FREESTYLE"
  ELSE IF total = 0 THEN "F"
  ELSE IF sc * 100 >= 95 * total THEN "SS"
  ELSE IF sc * 100 >= 90 * total THEN "S"
  ELSE IF sc * 100 >= 80 * total THEN "A"
  ELSE IF sc * 100 >= 70 * total THEN "B"
  ELSE IF sc * 100 >= 60 * total THEN "C"
  ELSE IF sc * 100 >= 40 * total THEN "D"
  ELSE "F"

\* largest score of RankSpec
MaxRankScore == 50
\* the totals of RankSpec: no note, and totals of 20, 25 and 50 points
RankTotals == {0, 20, 25, 50}

RankInit ==
  /\ lines \in Songs
  /\ difficulty \in Difficulties \cup {"SingStar!"}
  /\ selectedPlayer = NoPlayer
  /\ isPlaying = FALSE
  /\ currentTime = 0
  /\ fresh = Null
  /\ rank = Null
  /\ totalMaxScore \in RankTotals
  /\ score \in 0..Min(MaxRankScore, totalMaxScore)
  /\ currentMaxScore = totalMaxScore
  /\ goldenNoteHit = NewEngine.goldenNoteHit
  /\ lastFeedback = NewEngine.lastFeedback
  /\ noteStats = NewEngine.noteStats
  /\ noteStates = NewEngine.noteStates
  /\ lastTime = NewEngine.lastTime
  /\ feedbackTimeout = NewEngine.feedbackTimeout
  /\ goldenTimeouts = NewEngine.goldenTimeouts
  /\ awards = NewEngine.awards
  /\ heard = NewEngine.heard
  /\ ParserIdle
  /\ DetectorIdle
  /\ CalibrationIdle

\* <ResultsScreen :rank="finalRank" ...>
ShowResults ==
  /\ rank = Null
  /\ rank' = Some(finalRank(difficulty, totalMaxScore, score))
  /\ UNCHANGED << engineVars, lines, currentTime, difficulty, isPlaying, selectedPlayer, fresh,
                  parserVars, detectorVars, calibrationVars >>

RankNext == ShowResults

RankSpec == RankInit /\ [][RankNext]_vars

(***************************************************************************)
(* The chart parser (utils/ultrastarParser.ts, parseUltraStar).            *)
(*                                                                         *)
(* A chart is the sequence of its raw lines.  A raw line is a record: its  *)
(* kind stands for its first character(s), the other fields for the text   *)
(* that follows.  Numeric fields are kept as text and read by ParseInt and *)
(* ParseFloat.  JavaScript numbers are records: a finite number (times in  *)
(* milliseconds, so that gap / 1000 seconds is gap), NaN, or an infinity.  *)
(***************************************************************************)
Num(v) == [k |-> "num", v |-> v]
NaN == [k |-> "NaN", v |-> 0]
Infinity == [k |-> "inf", v |-> 1]
NegInfinity == [k |-> "inf", v |-> -1]

IsFinite(a) == a.k = "num"
Sign(v) == IF v > 0 THEN 1 ELSE IF v < 0 THEN -1 ELSE 0

\* a + b
JsAdd(a, b) ==
  IF a.k = "NaN" \/ b.k = "NaN" THEN NaN
  ELSE IF a.k = "inf" /\ b.k = "inf" THEN (IF a.v = b.v THEN a ELSE NaN)
  ELSE IF a.k = "inf" THEN a
  ELSE IF b.k = "inf" THEN b
  ELSE Num(a.v + b.v)

\* a - b
JsSub(a, b) == JsAdd(a, IF b.k = "NaN" THEN NaN ELSE [b EXCEPT !.v = -b.v])

\* a * b for finite b
JsMul(a, b) ==
  IF a.k = "NaN" THEN NaN
  ELSE IF a.k = "inf" THEN (IF b.v = 0 THEN NaN ELSE [a EXCEPT !.v = a.v * Sign(b.v)])
  ELSE Num(a.v * b.v)

\* a / b for finite b; the quotients of the model are whole numbers
JsDiv(a, b) ==
  IF a.k = "NaN" THEN NaN
  ELSE IF a.k = "inf" THEN [a EXCEPT !.v = a.v * (IF b.v < 0 THEN -1 ELSE 1)]
  ELSE IF b.v = 0 THEN (IF a.v = 0 THEN NaN ELSE [k |-> "inf", v |-> Sign(a.v)])
  ELSE Num(Sign(a.v) * Sign(b.v) * (Abs(a.v) \div Abs(b.v)))

\* a < b, a > b: false when either is NaN
JsLess(a, b) ==
  /\ a.k # "NaN" /\ b.k # "NaN"
  /\ IF a.k = "inf" THEN a.v = -1 /\ ~(b.k = "inf" /\ b.v = -1)
     ELSE IF b.k = "inf" THEN b.v = 1
     ELSE a.v < b.v
JsGreater(a, b) == JsLess(b, a)

\* a || 0 for a number a: 0 in place of 0 and of NaN
JsOrZero(a) == IF a.k = "NaN" THEN Num(0) ELSE a

\* parseInt(s) and parseFloat(s) on the field texts of the model
ParseInt(s) ==
  CASE s = "0" -> Num(0) [] s = "1" -> Num(1) [] s = "2" -> Num(2) [] s = "3" -> Num(3)
    [] s = "4" -> Num(4) [] s = "5" -> Num(5) [] s = "8" -> Num(8) [] s = "-1" -> Num(-1)
    [] OTHER -> NaN
ParseFloat(s) ==
  CASE s = "0" -> Num(0) [] s = "200" -> Num(200) [] s = "300" -> Num(300)
    [] s = "500" -> Num(500) [] s = "1000" -> Num(1000)
    [] OTHER -> NaN

\* key.toUpperCase() on the keys of the model
ToUpperCase(s) == CASE s = "bpm" -> "BPM" [] s = "gap" -> "GAP" [] OTHER -> s

\* the lyric texts of the model and the string tests made on them
StartsWithSpace(t) == t \in {" there", " "}
EndsWithSpace(t) == t \in {"you ", "Hi ", "there ", "a ", " "}
StartsWithTilde(t) == t \in {"~a", "~"}
\* text.substring(1) after a leading ~, text.replace(/~/g, ''), text.trim()
CleanText(t) ==
  CASE t = " there" -> "there" [] t = "you " -> "you" [] t = "~a" -> "a" [] t = "~" -> ""
    [] t = "Hi " -> "Hi" [] t = "there " -> "there" [] t = "a " -> "a" [] t = " " -> ""
    [] OTHER -> t
\* text += ' ' on the cleaned texts
WithSpace(t) ==
  CASE t = "Hi" -> "Hi " [] t = "there" -> "there " [] t = "you" -> "you "
    [] t = "a" -> "a " [] t = "" -> " " [] OTHER -> t
\* `${n}` for a number n of the model
NumberText(n) ==
  IF n.k = "NaN" THEN "NaN"
  ELSE CASE n.v = -1 -> "-1" [] n.v = 0 -> "0" [] n.v = 1 -> "1" [] n.v = 2 -> "2"
         [] n.v = 3 -> "3" [] n.v = 4 -> "4" [] n.v = 5 -> "5" [] n.v = 8 -> "8"
         [] n.v = 10 -> "10" [] OTHER -> "?"

\* the raw lines: '#KEY:value', 'P<n>', a note line '<type> <startBeat>
\* <duration> <pitch> <text>', '-', 'E', and a line that begins with none of these
RawLine(kind, type, f1, f2, f3, text) ==
  [kind |-> kind, type |-> type, f1 |-> f1, f2 |-> f2, f3 |-> f3, text |-> text]
MetaLine(key, value) == RawLine("#", "", key, value, "", "")
PlayerLine(n) == RawLine("P", "", n, "", "", "")
NoteLine(type, startBeat, duration, pitch, text) ==
  RawLine("note", type, startBeat, duration, pitch, text)
BreakLine == RawLine("-", "", "", "", "", "")
EndLine == RawLine("E", "", "", "", "", "")
OtherLine == RawLine("other", "", "", "", "", "")

\* the state of the parsing loop before the first raw line
ParserStart ==
  [metadata |-> << >>,
   lines |-> << >>,
   currentLine |-> [words |-> << >>, player |-> 1],
   currentWord |-> << >>,
   currentPlayer |-> 1,
   previousNoteEndedWithSpace |-> FALSE]

\* if (currentWord.notes.length > 0) currentLine.words.push(currentWord)
FlushWord(st) ==
  IF Len(st.currentWord) > 0
  THEN [st EXCEPT !.currentLine.words = Append(@, st.currentWord), !.currentWord = << >>]
  ELSE st

\* if (currentLine.words.length > 0) lines.push(currentLine);
\* currentLine = { words: [], player }
FlushLine(st, player) ==
  [st EXCEPT !.lines = IF Len(st.currentLine.words) > 0 THEN Append(@, st.currentLine) ELSE @,
             !.currentLine = [words |-> << >>, player |-> player]]

\* a line that starts with '#'
parseMetadata(st, l) ==
  [st EXCEPT !.metadata = MapSet(@, ToUpperCase(l.f1), l.f2)]

\* as parsePlayer, without the flush of the pending word and line
parsePlayerNoFlush(st, l) ==
  LET p == ParseInt(l.f1)
  IN IF p = Num(1) \/ p = Num(2)
     THEN [st EXCEPT !.currentPlayer = p.v]
     ELSE st

\* a line that starts with 'P'
parsePlayer(st, l) ==
  LET p == ParseInt(l.f1)
  IN IF p = Num(1) \/ p = Num(2)
     THEN [FlushLine(FlushWord(st), st.currentPlayer)
             EXCEPT !.currentPlayer = p.v,
                    !.currentLine = [words |-> << >>, player |-> p.v]]
     ELSE st

\* as parseNote, without the test of previousNoteEndedWithSpace
parseNoteNoTrailing(st, l, at) ==
  LET note == [type |-> l.type,
               startBeat |-> ParseInt(IF l.f1 = "" THEN "0" ELSE l.f1),
               duration |-> ParseInt(IF l.f2 = "" THEN "0" ELSE l.f2),
               pitch |-> ParseInt(IF l.f3 = "" THEN "0" ELSE l.f3),
               text |-> CleanText(l.text),
               isExtension |-> StartsWithTilde(l.text),
               at |-> at]
      newWord == \/ StartsWithSpace(l.text)
                 \/ (Len(st.currentLine.words) = 0 /\ Len(st.currentWord) = 0)
      st1 == IF newWord THEN [FlushWord(st) EXCEPT !.currentWord = << note >>]
             ELSE [st EXCEPT !.currentWord = Append(@, note)]
  IN [st1 EXCEPT !.previousNoteEndedWithSpace = EndsWithSpace(l.text)]

\* a line that starts with ':', '*', 'F', 'R' or 'G'; at is the position of
\* the raw line in the chart, kept with the note
parseNote(st, l, at) ==
  LET note == [type |-> l.type,
               startBeat |-> ParseInt(IF l.f1 = "" THEN "0" ELSE l.f1),
               duration |-> ParseInt(IF l.f2 = "" THEN "0" ELSE l.f2),
               pitch |-> ParseInt(IF l.f3 = "" THEN "0" ELSE l.f3),
               text |-> CleanText(l.text),
               isExtension |-> StartsWithTilde(l.text),
               at |-> at]
      newWord == \/ StartsWithSpace(l.text)
                 \/ st.previousNoteEndedWithSpace
                 \/ (Len(st.currentLine.words) = 0 /\ Len(st.currentWord) = 0)
      st1 == IF newWord THEN [FlushWord(st) EXCEPT !.currentWord = << note >>]
             ELSE [st EXCEPT !.currentWord = Append(@, note)]
  IN [st1 EXCEPT !.previousNoteEndedWithSpace = EndsWithSpace(l.text)]

\* a line that starts with '-', and a line that starts with 'E'
parseBreak(st) == FlushLine(FlushWord(st), st.currentPlayer)

\* one turn of the loop over rawLines
parseLine(st, l, at) ==
  CASE l.kind = "#" -> parseMetadata(st, l)
    [] l.kind = "P" -> parsePlayer(st, l)
    [] l.kind = "note" -> parseNote(st, l, at)
    [] l.kind = "-" -> parseBreak(st)
    [] l.kind = "E" -> parseBreak(st)
    [] OTHER -> st

\* the loop over rawLines[1..n]
RECURSIVE parseLines(_, _)
parseLines(rawLines, n) ==
  IF n = 0 THEN ParserStart
  ELSE parseLine(parseLines(rawLines, n - 1), rawLines[n], n)

\* milliseconds in a second: times are kept in milliseconds
MsPerSecond == 1000

\* parseFloat(metadata[key]?.replace(',', '.') || '0')
metadataNumber(metadata, key) ==
  ParseFloat(IF key \in DOMAIN metadata /\ metadata[key] # "" THEN metadata[key] ELSE "0")

\* as beatTime, without the gap
beatTimeNoGap(beat, bpm, gap) ==
  JsDiv(JsMul(beat, Num(60 * MsPerSecond)), JsMul(bpm, Num(4)))

\* (beat * 60) / (bpm * 4) + (gap / 1000), in milliseconds
beatTime(beat, bpm, gap) ==
  JsAdd(JsDiv(JsMul(beat, Num(60 * MsPerSecond)), JsMul(bpm, Num(4))), gap)

\* note.startTime = ..., note.endTime = ...
timedNote(note, bpm, gap) ==
  [type |-> note.type, startBeat |-> note.startBeat, duration |-> note.duration,
   pitch |-> note.pitch, text |-> note.text, isExtension |-> note.isExtension,
   at |-> note.at,
   startTime |-> beatTime(note.startBeat, bpm, gap),
   endTime |-> beatTime(JsAdd(note.startBeat, note.duration), bpm, gap)]

timedWord(word, bpm, gap) == [i \in 1..Len(word) |-> timedNote(word[i], bpm, gap)]

\* the notes of a line, in order
LineNotes(line) == Flatten(line.words)

\* lineStart: Infinity, lowered by every note whose startTime is below it
RECURSIVE lineStart(_)
lineStart(notes) ==
  IF notes = << >> THEN Infinity
  ELSE LET before == lineStart(SubSeq(notes, 1, Len(notes) - 1))
           startTime == notes[Len(notes)].startTime
       IN IF JsLess(startTime, before) THEN startTime ELSE before

\* lineEnd: 0, raised by every note whose endTime is above it
RECURSIVE lineEnd(_)
lineEnd(notes) ==
  IF notes = << >> THEN Num(0)
  ELSE LET before == lineEnd(SubSeq(notes, 1, Len(notes) - 1))
           endTime == notes[Len(notes)].endTime
       IN IF JsGreater(endTime, before) THEN endTime ELSE before

timedLine(line, bpm, gap) ==
  LET words == [i \in 1..Len(line.words) |-> timedWord(line.words[i], bpm, gap)]
  IN [words |-> words, player |-> line.player,
      startTime |-> lineStart(Flatten(words)),
      endTime |-> lineEnd(Flatten(words))]

\* (a.startTime || 0) - (b.startTime || 0) is negative
lineBefore(a, b) ==
  LET d == JsSub(JsOrZero(a.startTime), JsOrZero(b.startTime))
  IN d.k # "NaN" /\ d.v < 0

\* lines.sort(...): Array.prototype.sort is stable
RECURSIVE insertLine(_, _)
insertLine(line, s) ==
  IF s = << >> THEN << line >>
  ELSE IF lineBefore(line, Head(s)) THEN << line >> \o s
  ELSE << Head(s) >> \o insertLine(line, Tail(s))

\* as sortLines, without the sort
sortLinesNone(s) ==
  s

RECURSIVE sortLines(_)
sortLines(s) ==
  IF s = << >> THEN << >>
  ELSE insertLine(s[Len(s)], sortLines(SubSeq(s, 1, Len(s) - 1)))

\* as parseUltraStar, without the flush of the pending word and line after
\* the loop
parseUltraStarNoFlush(rawLines) ==
  LET st == parseLines(rawLines, Len(rawLines))
      bpm == metadataNumber(st.metadata, "BPM")
      gap == metadataNumber(st.metadata, "GAP")
  IN [metadata |-> st.metadata,
      lines |-> sortLines([i \in 1..Len(st.lines) |-> timedLine(st.lines[i], bpm, gap)])]

\* parseUltraStar(text), text the raw lines joined by '\n'
parseUltraStar(rawLines) ==
  LET st == FlushLine(FlushWord(parseLines(rawLines, Len(rawLines))), 1)
      bpm == metadataNumber(st.metadata, "BPM")
      gap == metadataNumber(st.metadata, "GAP")
  IN [metadata |-> st.metadata,
      lines |-> sortLines([i \in 1..Len(st.lines) |-> timedLine(st.lines[i], bpm, gap)])]

\* for (const [key, value] of Object.entries(song.metadata)) output += '#key:value'
RECURSIVE stringifyMetadata(_)
stringifyMetadata(metadata) ==
  IF DOMAIN metadata = {} THEN << >>
  ELSE LET key == CHOOSE k \in DOMAIN metadata : TRUE
       IN << MetaLine(key, metadata[key]) >>
            \o stringifyMetadata([k \in DOMAIN metadata \ {key} |-> metadata[k]])

\* the note lines of a word: 'type startBeat duration pitch text', the text
\* of the last note followed by a space
stringifyWord(word) ==
  [j \in 1..Len(word) |->
     NoteLine(IF word[j].type = "" THEN ":" ELSE word[j].type,
              NumberText(word[j].startBeat), NumberText(word[j].duration),
              NumberText(word[j].pitch),
              IF j = Len(word) THEN WithSpace(word[j].text) ELSE word[j].text)]

\* the note lines of a line, then '- endBeat' of its last note
stringifyLine(line) ==
  LET notes == Flatten([i \in 1..Len(line.words) |-> stringifyWord(line.words[i])])
      lastWord == line.words[Len(line.words)]
  IN IF Len(line.words) > 0 /\ Len(lastWord) > 0
     THEN notes \o << RawLine("-", "", NumberText(JsAdd(lastWord[Len(lastWord)].startBeat,
                                                      lastWord[Len(lastWord)].duration)),
                              "", "", "") >>
     ELSE notes

\* stringifyUltraStar(song), as the raw lines of the text it returns
stringifyUltraStar(s) ==
  stringifyMetadata(s.metadata)
    \o Flatten([i \in 1..Len(s.lines) |-> stringifyLine(s.lines[i])])
    \o << EndLine >>

\* largest number of raw lines after the metadata lines of a chart
MaxLines == 3

\* the metadata lines of the charts: none, BPM 200, BPM 200 with GAP 500
\* (lower-case keys), BPM 300 with GAP 1000, BPM 0
Headers ==
  { << >>,
    << MetaLine("BPM", "200") >>,
    << MetaLine("bpm", "200"), MetaLine("gap", "500") >>,
    << MetaLine("BPM", "300"), MetaLine("GAP", "1000") >>,
    << MetaLine("BPM", "0") >> }

\* the other raw lines of the charts
BodyLines ==
  { NoteLine(":", "0", "4", "0", "Hi"),
    NoteLine("*", "8", "2", "5", " there"),
    NoteLine(":", "5", "-1", "0", "you "),
    NoteLine("F", "x", "4", "0", "~a"),
    NoteLine(":", "4", "1", "0", "~"),
    PlayerLine("1"), PlayerLine("2"), PlayerLine("3"),
    BreakLine, EndLine, OtherLine }

Charts ==
  { h \o b : h \in Headers,
             b \in UNION { [1..n -> BodyLines] : n \in 0..MaxLines } }

\* no song is loaded into the player
ScoringIdle ==
  /\ lines = << >>
  /\ difficulty = "Fácil"
  /\ selectedPlayer = NoPlayer
  /\ isPlaying = FALSE
  /\ currentTime = 0
  /\ fresh = Null
  /\ rank = Null
  /\ HasEngine(NewEngine)

ParserInit ==
  /\ chart \in Charts
  /\ song = Null
  /\ ScoringIdle
  /\ DetectorIdle
  /\ CalibrationIdle

\* song = parseUltraStar(chart)
ParseChart ==
  /\ song = Null
  /\ song' = Some(parseUltraStar(chart))
  /\ UNCHANGED << engineVars, lines, currentTime, difficulty, isPlaying, selectedPlayer,
                  fresh, rank, chart, detectorVars, calibrationVars >>

ParserNext == ParseChart

ParserSpec == ParserInit /\ [][ParserNext]_vars

(***************************************************************************)
(* The pitch detector (composables/usePitchDetector.ts).                   *)
(*                                                                         *)
(* A frame reads the analyser and hands the samples to autoCorrelate; the  *)
(* frequency it returns (in Hz, -1 for no pitch) is the input of the frame.*)
(* MIDI values are whole semitones.                                        *)
(***************************************************************************)
\* largest number of microphone requests and streams in use at a time
MaxStarts == 2
\* largest number of valid samples between two emptyings of the buffer
MaxSamples == 4

\* const PITCH_BUFFER_SIZE = 3
PITCH_BUFFER_SIZE == 3

\* what autoCorrelate returns: no pitch, the ends of the voice band, and the
\* frequencies of C4, C#4 and C5
NoFrequency == -1
Frequencies == {NoFrequency, 50, 262, 277, 523, 2000}

\* frequencyToMidi on the frequencies of the model, to the nearest semitone
frequencyToMidi(freq) ==
  CASE freq = 50 -> 31 [] freq = 262 -> 60 [] freq = 277 -> 61
    [] freq = 523 -> 72 [] freq = 2000 -> 95

\* [...pitchBuffer].sort((a, b) => a - b)
RECURSIVE InsertNumber(_, _)
InsertNumber(x, s) ==
  IF s = << >> THEN << x >>
  ELSE IF x < Head(s) THEN << x >> \o s
  ELSE << Head(s) >> \o InsertNumber(x, Tail(s))

RECURSIVE SortNumbers(_)
SortNumbers(s) ==
  IF s = << >> THEN << >>
  ELSE InsertNumber(s[Len(s)], SortNumbers(SubSeq(s, 1, Len(s) - 1)))

\* as getSmoothedPitch, without the sort
getSmoothedPitchNoSort(buffer, newPitch) ==
  LET pushed == Append(buffer, newPitch)
      kept == IF Len(pushed) > PITCH_BUFFER_SIZE THEN Tail(pushed) ELSE pushed
  IN [pitchBuffer |-> kept,
      value |-> IF Len(kept) < 2 THEN newPitch
                ELSE kept[((Len(kept) - 1) \div 2) + 1]]

\* getSmoothedPitch(newPitch): the buffer after the call and the value returned
getSmoothedPitch(buffer, newPitch) ==
  LET pushed == Append(buffer, newPitch)
      kept == IF Len(pushed) > PITCH_BUFFER_SIZE THEN Tail(pushed) ELSE pushed
  IN [pitchBuffer |-> kept,
      value |-> IF Len(kept) < 2 THEN newPitch
                ELSE SortNumbers(kept)[((Len(kept) - 1) \div 2) + 1]]

\* freq !== -1 && freq > 50 && freq < 2000
IsVoice(freq) == freq # NoFrequency /\ freq > 50 /\ freq < 2000

\* as analyseFrame, without emptying the buffer when there is no pitch
analyseFrameKeepBuffer(buffer, freq) ==
  IF IsVoice(freq)
  THEN LET smoothed == getSmoothedPitch(buffer, frequencyToMidi(freq))
       IN [pitchBuffer |-> smoothed.pitchBuffer, rawPitch |-> Some(smoothed.value)]
  ELSE [pitchBuffer |-> buffer, rawPitch |-> Null]

\* updatePitch from the result of autoCorrelate to the reschedule: the
\* buffer and rawPitch after the frame
analyseFrame(buffer, freq) ==
  IF IsVoice(freq)
  THEN LET smoothed == getSmoothedPitch(buffer, frequencyToMidi(freq))
       IN [pitchBuffer |-> smoothed.pitchBuffer, rawPitch |-> Some(smoothed.value)]
  ELSE [pitchBuffer |-> << >>, rawPitch |-> Null]

\* the valid samples since the buffer was last emptied, after a frame
fedAfter(freq) == IF IsVoice(freq) THEN Append(fed, frequencyToMidi(freq)) ELSE << >>

\* the number of streams with live tracks
OpenStreams == leakedStreams + (IF mediaStream = Some(TRUE) THEN 1 ELSE 0)

DetectorInit == ScoringIdle /\ ParserIdle /\ DetectorIdle /\ CalibrationIdle

\* start() up to the await of getUserMedia
Start ==
  /\ pendingStarts + OpenStreams < MaxStarts
  /\ audioContext' = Some(FALSE)
  /\ pendingStarts' = pendingStarts + 1
  /\ stopped' = FALSE
  /\ UNCHANGED << analyser, mediaStream, leakedStreams, pitchBuffer, rawPitch, loops,
                  animationId, fed, lastFreq >>
  /\ UNCHANGED << engineVars, lines, currentTime, difficulty, isPlaying, selectedPlayer,
                  fresh, rank, parserVars, calibrationVars >>

\* getUserMedia rejects: the catch of start()
MicDenied ==
  /\ pendingStarts > 0
  /\ pendingStarts' = pendingStarts - 1
  /\ UNCHANGED << audioContext, analyser, mediaStream, leakedStreams, pitchBuffer, rawPitch,
                  loops, animationId, fed, lastFreq, stopped >>
  /\ UNCHANGED << engineVars, lines, currentTime, difficulty, isPlaying, selectedPlayer,
                  fresh, rank, parserVars, calibrationVars >>

\* getUserMedia resolves: the rest of start().  On a closed context
\* createMediaStreamSource throws or not, by the browser (throws tells
\* which); freq is what autoCorrelate returns in the first updatePitch
MicGranted(throws, freq) ==
  /\ pendingStarts > 0
  /\ pendingStarts' = pendingStarts - 1
  /\ mediaStream' = Some(TRUE)
  /\ leakedStreams' = OpenStreams
  /\ IF throws
     THEN /\ audioContext = Some(TRUE)
          /\ UNCHANGED << analyser, pitchBuffer, rawPitch, loops, animationId, fed, lastFreq >>
     ELSE /\ IsVoice(freq) => Len(fed) < MaxSamples
          /\ analyser' = TRUE
          /\ pitchBuffer' = analyseFrame(pitchBuffer, freq).pitchBuffer
          /\ rawPitch' = analyseFrame(pitchBuffer, freq).rawPitch
          /\ loops' = loops + 1
          /\ animationId' = Some(TRUE)
          /\ fed' = fedAfter(freq)
          /\ lastFreq' = Some(freq)
  /\ UNCHANGED << audioContext, stopped >>
  /\ UNCHANGED << engineVars, lines, currentTime, difficulty, isPlaying, selectedPlayer,
                  fresh, rank, parserVars, calibrationVars >>

\* an animation frame runs updatePitch
Frame(freq) ==
  /\ loops > 0
  /\ IF ~analyser \/ audioContext = Null
     THEN /\ loops' = loops - 1
          /\ UNCHANGED << pitchBuffer, rawPitch, animationId, fed, lastFreq >>
     ELSE /\ IsVoice(freq) => Len(fed) < MaxSamples
          /\ pitchBuffer' = analyseFrame(pitchBuffer, freq).pitchBuffer
          /\ rawPitch' = analyseFrame(pitchBuffer, freq).rawPitch
          /\ animationId' = Some(TRUE)
          /\ fed' = fedAfter(freq)
          /\ lastFreq' = Some(freq)
          /\ UNCHANGED loops
  /\ UNCHANGED << audioContext, analyser, mediaStream, leakedStreams, pendingStarts, stopped >>
  /\ UNCHANGED << engineVars, lines, currentTime, difficulty, isPlaying, selectedPlayer,
                  fresh, rank, parserVars, calibrationVars >>

\* stop()
Stop ==
  /\ loops' = IF animationId = Some(TRUE) THEN loops - 1 ELSE loops
  /\ animationId' = IF animationId = Null THEN Null ELSE Some(FALSE)
  /\ mediaStream' = IF mediaStream = Null THEN Null ELSE Some(FALSE)
  /\ audioContext' = IF audioContext = Null THEN Null ELSE Some(TRUE)
  /\ rawPitch' = Null
  /\ pitchBuffer' = << >>
  /\ fed' = << >>
  /\ stopped' = TRUE
  /\ UNCHANGED << analyser, leakedStreams, pendingStarts, lastFreq >>
  /\ UNCHANGED << engineVars, lines, currentTime, difficulty, isPlaying, selectedPlayer,
                  fresh, rank, parserVars, calibrationVars >>

DetectorNext ==
  \/ Start
  \/ MicDenied
  \/ \E throws \in BOOLEAN, freq \in Frequencies : MicGranted(throws, freq)
  \/ \E freq \in Frequencies : Frame(freq)
  \/ Stop

DetectorSpec == DetectorInit /\ [][DetectorNext]_vars

(***************************************************************************)
(* The pitch calibration dialog (src/unnamed/part_009): three reference    *)
(* tones, each played for 2 s and then recorded for 3 s.                   *)
(***************************************************************************)
\* largest number of samples stored for one tone
MaxRecorded == 5

MIN_SAMPLES_FOR_CALIBRATION == 5

\* calibrationNotes[i].midi, in hundredths of a semitone (i counts from 0)
calibrationNotes == << [midi |-> 6000, name |-> "C4"],
                       [midi |-> 6400, name |-> "E4"],
                       [midi |-> 6700, name |-> "G4"] >>

\* what autoCorrelate returns in a frame of the dialog
CalibrationFrequencies == {NoFrequency, 262, 2000}

\* 12 * (Math.log(freq / 440) / Math.log(2)) + 69, in hundredths of a semitone
noteNumber(freq) == CASE freq = 262 -> 6002 [] OTHER -> 0

\* as recordPitch, without the test of isRecording
recordPitchAlways(pitches, index, recording, noteNum) ==
  IF index < Len(calibrationNotes)
  THEN [pitches EXCEPT ![index + 1] = Append(@, noteNum)]
  ELSE pitches

\* if (isRecording.value && currentNoteIndex.value < calibrationNotes.length)
\*   recordedPitches.value[currentNoteIndex.value].push(noteNum)
recordPitch(pitches, index, recording, noteNum) ==
  IF recording /\ index < Len(calibrationNotes)
  THEN [pitches EXCEPT ![index + 1] = Append(@, noteNum)]
  ELSE pitches

\* the body of updatePitch once the analyser is set
calibrationFrame(freq) ==
  IF IsVoice(freq)
  THEN /\ detectedPitch' = Some(noteNumber(freq))
       /\ recordedPitches' = recordPitch(recordedPitches, currentNoteIndex, isRecording,
                                         noteNumber(freq))
  ELSE /\ detectedPitch' = Null
       /\ UNCHANGED recordedPitches

\* sorted[Math.floor(sorted.length / 2)]
median(pitches) == SortNumbers(pitches)[(Len(pitches) \div 2) + 1]

RECURSIVE offsetsOf(_, _)
offsetsOf(pitches, n) ==
  IF n = 0 THEN << >>
  ELSE offsetsOf(pitches, n - 1)
         \o (IF Len(pitches[n]) > 0
             THEN << calibrationNotes[n].midi - median(pitches[n]) >> ELSE << >>)

RECURSIVE SeqSum(_)
SeqSum(s) == IF s = << >> THEN 0 ELSE Head(s) + SeqSum(Tail(s))

\* finishCalibration: the average of the offsets, rounded to 2 decimal places
\* (Math.round rounds halves up)
finishCalibration(pitches, offset) ==
  LET offsets == offsetsOf(pitches, Len(calibrationNotes))
  IN IF Len(offsets) > 0
     THEN (2 * SeqSum(offsets) + Len(offsets)) \div (2 * Len(offsets))
     ELSE offset

CalibrationInit == ScoringIdle /\ ParserIdle /\ DetectorIdle /\ CalibrationIdle

othersUnchanged ==
  UNCHANGED << engineVars, lines, currentTime, difficulty, isPlaying, selectedPlayer,
               fresh, rank, parserVars, detectorVars >>

\* getUserMedia resolves: the rest of startMicrophoneDetection, with the
\* first updatePitch
MicrophoneGranted(freq) ==
  /\ micPending
  /\ micPending' = FALSE
  /\ micAnalyser' = TRUE
  /\ calibrationFrame(freq)
  /\ UNCHANGED << status, currentNoteIndex, isRecording, calculatedOffset, countdown,
                  referencePlaying, referenceTimeouts >>
  /\ othersUnchanged

\* getUserMedia rejects: the catch of startMicrophoneDetection
MicrophoneDenied ==
  /\ micPending
  /\ micPending' = FALSE
  /\ UNCHANGED << status, currentNoteIndex, isRecording, recordedPitches, calculatedOffset,
                  countdown, detectedPitch, referencePlaying, referenceTimeouts, micAnalyser >>
  /\ othersUnchanged

\* an animation frame runs updatePitch
UpdatePitch(freq) ==
  /\ micAnalyser
  /\ (IsVoice(freq) /\ isRecording) =>
        Len(recordedPitches[currentNoteIndex + 1]) < MaxRecorded
  /\ calibrationFrame(freq)
  /\ UNCHANGED << status, currentNoteIndex, isRecording, calculatedOffset, countdown,
                  referencePlaying, referenceTimeouts, micPending, micAnalyser >>
  /\ othersUnchanged

\* the button of playReferenceNote, offered while status is 'idle' and
\* disabled while the tone plays
PlayReferenceNote ==
  /\ status = "idle" /\ ~referencePlaying
  /\ referencePlaying' = TRUE
  /\ referenceTimeouts' = referenceTimeouts + 1
  /\ UNCHANGED << status, currentNoteIndex, isRecording, recordedPitches, calculatedOffset,
                  countdown, detectedPitch, micPending, micAnalyser >>
  /\ othersUnchanged

\* a 2 s timer of playReferenceNote fires
ReferenceTimeout ==
  /\ referenceTimeouts > 0
  /\ referenceTimeouts' = referenceTimeouts - 1
  /\ referencePlaying' = FALSE
  /\ UNCHANGED << status, currentNoteIndex, isRecording, recordedPitches, calculatedOffset,
                  countdown, detectedPitch, micPending, micAnalyser >>
  /\ othersUnchanged

\* the button of startCalibrationForNote, offered while status is 'idle':
\* the function up to its first await
StartCalibrationForNote ==
  /\ status = "idle"
  /\ status' = "playing"
  /\ referencePlaying' = TRUE
  /\ referenceTimeouts' = referenceTimeouts + 1
  /\ UNCHANGED << currentNoteIndex, isRecording, recordedPitches, calculatedOffset,
                  countdown, detectedPitch, micPending, micAnalyser >>
  /\ othersUnchanged

\* startCalibrationForNote after its first await (2 s): the timers of
\* playReferenceNote were set before its own and have fired
StartRecording ==
  /\ status = "playing"
  /\ referenceTimeouts = 0
  /\ status' = "recording"
  /\ isRecording' = TRUE
  /\ countdown' = 3
  /\ UNCHANGED << currentNoteIndex, recordedPitches, calculatedOffset, detectedPitch,
                  referencePlaying, referenceTimeouts, micPending, micAnalyser >>
  /\ othersUnchanged

\* a tick of countdownInterval (every 1 s until countdown reaches 0)
CountdownTick ==
  /\ status = "recording" /\ countdown > 0
  /\ countdown' = countdown - 1
  /\ UNCHANGED << status, currentNoteIndex, isRecording, recordedPitches, calculatedOffset,
                  detectedPitch, referencePlaying, referenceTimeouts, micPending, micAnalyser >>
  /\ othersUnchanged

\* startCalibrationForNote after its second await (3 s): the interval was
\* set before the 3 s timer and has ticked three times
EndRecording ==
  /\ status = "recording"
  /\ countdown = 0
  /\ isRecording' = FALSE
  /\ IF Len(recordedPitches[currentNoteIndex + 1]) < MIN_SAMPLES_FOR_CALIBRATION
     THEN /\ status' = "idle"
          /\ recordedPitches' = [recordedPitches EXCEPT ![currentNoteIndex + 1] = << >>]
          /\ UNCHANGED << currentNoteIndex, calculatedOffset >>
     ELSE IF currentNoteIndex < Len(calibrationNotes) - 1
     THEN /\ currentNoteIndex' = currentNoteIndex + 1
          /\ status' = "idle"
          /\ UNCHANGED << recordedPitches, calculatedOffset >>
     ELSE /\ status' = "done"
          /\ calculatedOffset' = finishCalibration(recordedPitches, calculatedOffset)
          /\ UNCHANGED << currentNoteIndex, recordedPitches >>
  /\ UNCHANGED << countdown, detectedPitch, referencePlaying, referenceTimeouts,
                  micPending, micAnalyser >>
  /\ othersUnchanged

\* the button of resetCalibration, offered while status is 'done'
ResetCalibration ==
  /\ status = "done"
  /\ currentNoteIndex' = 0
  /\ recordedPitches' = << << >>, << >>, << >> >>
  /\ status' = "idle"
  /\ calculatedOffset' = 0
  /\ UNCHANGED << isRecording, countdown, detectedPitch, referencePlaying,
                  referenceTimeouts, micPending, micAnalyser >>
  /\ othersUnchanged

CalibrationNext ==
  \/ \E freq \in CalibrationFrequencies : MicrophoneGranted(freq)
  \/ MicrophoneDenied
  \/ \E freq \in CalibrationFrequencies : UpdatePitch(freq)
  \/ PlayReferenceNote
  \/ ReferenceTimeout
  \/ StartCalibrationForNote
  \/ StartRecording
  \/ CountdownTick
  \/ EndRecording
  \/ ResetCalibration

CalibrationSpec == CalibrationInit /\ [][CalibrationNext]_vars

(***************************************************************************)
(* Properties.                                                             *)
(***************************************************************************)
IsScored(n) == n \in DOMAIN noteStates /\ noteStates[n].isScored
Duration(n) == NoteOf(n).endTime - NoteOf(n).startTime
Selected == AllNoteIds(lines, selectedPlayer)

\* the notes finalized by a step
NewlyScored == {n \in DOMAIN noteStates' : noteStates'[n].isScored /\ ~IsScored(n)}

\* a step of resetScore or restartSong
ResetStep == \E r \in BOOLEAN : ResetScore(r) \/ RestartSong(r)

\* a step of the currentTime watcher that passes the isPlaying and dt tests
\* (only TimeUpdate and RestartSong change currentTime, and RestartSong sets it to 0)
ProcessedTick == isPlaying /\ currentTime' # currentTime /\ currentTime' > lastTime

RECURSIVE SetSum(_, _)
SetSum(S, f) ==
  IF S = {} THEN 0
  ELSE LET x == CHOOSE y \in S : TRUE IN f[x] + SetSum(S \ {x}, f)

\* C1: between two resets a scored note stays scored, and its points and its
\* maxScore are added at most once: no step but a reset unsets isScored or adds
\* to what the note was awarded, and score and currentMaxScore change only in
\* steps that finalize a note.
C1_ScoredOnce ==
  [][ /\ \A n \in NoteIds : Len(awards'[n]) <= 1
      /\ ~ResetStep =>
           /\ \A n \in DOMAIN noteStates :
                 noteStates[n].isScored =>
                   /\ n \in DOMAIN noteStates'
                   /\ noteStates'[n].isScored
                   /\ awards'[n] = awards[n]
           /\ NewlyScored = {} => score' = score /\ currentMaxScore' = currentMaxScore
    ]_vars

\* a note was scored with points, and the clock is back before the note
C1_Witness ==
  \E n \in DOMAIN noteStates :
    /\ noteStates[n].isScored
    /\ awards[n] # << >> /\ awards[n][1].earned > 0
    /\ isPlaying /\ lastTime < NoteOf(n).startTime

\* C2: for every note 0 <= sungDuration <= endTime - startTime.
C2_SungWithinDuration ==
  \A n \in DOMAIN noteStates :
    0 <= noteStates[n].sungDuration /\ noteStates[n].sungDuration <= Duration(n)

\* C3: in a non-Freestyle session, after a tick processed while playing with
\* positive dt at time t, every selected note with endTime + 0.15 < t is scored.
C3_AgedNotesFinalized ==
  [][ (ProcessedTick /\ difficulty # "Freestyle") =>
        \A n \in Selected :
          NoteOf(n).endTime + TRAILING_WINDOW < currentTime' =>
            n \in DOMAIN noteStates' /\ noteStates'[n].isScored
    ]_vars

\* every selected note was finalized though no tick ever found a pitch
C3_Witness ==
  /\ difficulty # "Freestyle" /\ isPlaying
  /\ Selected # {}
  /\ \A n \in Selected : IsScored(n) /\ ~heard[n] /\ lastTime > NoteOf(n).endTime + TRAILING_WINDOW

\* C4: a note for which no processed tick inside its window found a pitch is
\* finalized with no grade and 0 points, and a step that finalizes only such
\* notes leaves score, noteStats and lastFeedback as they are; score >= 0.
C4_SilentNoteScoresNothing ==
  /\ [](score >= 0)
  /\ [][ /\ \A n \in NewlyScored :
              ~heard'[n] => \A i \in 1..Len(awards'[n]) :
                               awards'[n][i].grade = "none" /\ awards'[n][i].earned = 0
         /\ (NewlyScored # {} /\ \A m \in NewlyScored : ~heard'[m]) =>
              /\ score' = score
              /\ noteStats' = noteStats
              /\ lastFeedback' = lastFeedback
              /\ feedbackTimeout' = feedbackTimeout
       ]_vars

\* a note of positive duration aged out unheard in a scoring difficulty
C4_Witness ==
  \E n \in DOMAIN noteStates :
    /\ Duration(n) > 0 /\ noteStates[n].isScored /\ ~heard[n]
    /\ awards[n] = << [grade |-> "none", earned |-> 0] >>
    /\ score = 0

\* the grade the table of the claim gives for percent = sung / duration
ClaimGrade(n, sung, diff) ==
  LET d == Duration(n)
      th == settings(diff).thresholds
      golden == NoteOf(n).type \in {"*", "G"}
  IN IF d > 0 /\ sung * 100 >= th.excellent * d THEN (IF golden THEN "perfect" ELSE "excellent")
     ELSE IF d > 0 /\ th.good * d <= sung * 100 /\ sung * 100 < th.excellent * d THEN "good"
     ELSE IF d > 0 /\ th.ok * d <= sung * 100 /\ sung * 100 < th.good * d THEN "ok"
     ELSE "none"

\* earned is the award of the claim: exactly (exact = TRUE) or rounded down
ClaimAward(grade, earned, points, exact) ==
  CASE grade = "perfect" -> earned = 2 * points
    [] grade = "excellent" -> earned = points
    [] grade = "good" -> IF exact THEN 3 * earned = 2 * points
                         ELSE 3 * earned <= 2 * points /\ 2 * points < 3 * (earned + 1)
    [] grade = "ok" -> IF exact THEN 3 * earned = points
                       ELSE 3 * earned <= points /\ points < 3 * (earned + 1)
    [] OTHER -> earned = 0

ScoreNoteAsClaimed(exact) ==
  (NewlyScored # {} /\ difficulty # "Freestyle") =>
    /\ \A n \in NewlyScored :
         /\ Len(awards'[n]) = 1
         /\ awards'[n][1].grade = ClaimGrade(n, noteStates'[n].sungDuration, difficulty)
         /\ ClaimAward(awards'[n][1].grade, awards'[n][1].earned,
                       settings(difficulty).points, exact)
         /\ (difficulty = "Normal" /\ Duration(n) > 0
               /\ noteStates'[n].sungDuration = Duration(n)) =>
              IF NoteOf(n).type \in {"*", "G"}
              THEN awards'[n][1] = [grade |-> "perfect", earned |-> 40]
              ELSE awards'[n][1] = [grade |-> "excellent", earned |-> 20]
    /\ score' - score = SetSum(NewlyScored, [m \in NewlyScored |-> awards'[m][1].earned])
    /\ \A g \in {"ok", "good", "excellent", "perfect"} :
         noteStats'[g] - noteStats[g]
           = Cardinality({m \in NewlyScored : awards'[m][1].grade = g})

\* C5 as stated: the award is full points, exactly 2/3 or 1/3 of points, or 0.
C5_ExactThirds == [][ScoreNoteAsClaimed(TRUE)]_vars

\* C5: at finalization under a non-Freestyle difficulty the grade is the one
\* of the threshold table for percent = sungDuration / duration, the award is
\* full points (doubled and 'perfect' for a golden note), 2/3 or 1/3 of points
\* rounded down to an integer, or 0; score grows by the award and exactly the
\* matching counter by one.
C5_AwardByTier == [][ScoreNoteAsClaimed(FALSE)]_vars

\* a note graded 'good' in Normal difficulty: 13 points, not 13.33
C5_Witness ==
  \E n \in DOMAIN noteStates :
    /\ noteStates[n].isScored
    /\ 2 * noteStates[n].sungDuration = Duration(n)
    /\ awards[n] = << [grade |-> "good", earned |-> 13] >>
    /\ noteStats.good = 1

\* circular semitone distance min(|d| mod 12, 12 - |d| mod 12), in half semitones
CircularDistance(est, n) ==
  LET d == Abs(est - 2 * NoteOf(n).pitch) % Octave
  IN IF d <= Octave - d THEN d ELSE Octave - d

ClaimHit(est, n, diff, session) ==
  \/ CircularDistance(est, n) <= settings(diff).pitchTol
  \/ NoteOf(n).type = "F"
  \/ session /\ diff = "Freestyle"

OctaveShifts == {-6, -1, 1, 2}

\* a processed tick with a pitch estimate credits a note in its window iff the
\* note counts as hit
HitAsClaimed(session) ==
  \A p \in Pitches \ {NoPitch} :
    LET t == currentTime' IN
    (ProcessedTick /\ TimeUpdate(t, p)) =>
      \A n \in Selected :
        ( /\ n \in DOMAIN noteStates /\ ~noteStates[n].isScored
          /\ NoteOf(n).startTime <= t /\ t <= NoteOf(n).endTime + TRAILING_WINDOW
          /\ noteStates[n].sungDuration < Duration(n) ) =>
            ( noteStates'[n].sungDuration > noteStates[n].sungDuration
                <=> ClaimHit(p[1], n, difficulty, session) )

OctaveInvariant ==
  \A n \in NoteIds, p \in Pitches \ {NoPitch}, k \in OctaveShifts :
    IsHit(p[1] + k * Octave, NoteOf(n), difficulty) = IsHit(p[1], NoteOf(n), difficulty)

\* C6 as stated: hit iff the circular distance is within the tolerance or the
\* note's type is 'F'.
C6_HitByDistanceOrType == [][HitAsClaimed(FALSE)]_vars

\* C6: hit iff the circular distance is within the tolerance, or the note's
\* type is 'F', or the difficulty is 'Freestyle'; the decision is the same
\* for an estimate shifted by whole octaves.
C6_HitByDistanceTypeOrSession == [][HitAsClaimed(TRUE)]_vars /\ []OctaveInvariant

\* a note that is not of type 'F' was credited in Freestyle difficulty
C6_Witness ==
  \E n \in Selected :
    /\ difficulty = "Freestyle" /\ isPlaying
    /\ NoteOf(n).type # "F" /\ n \in DOMAIN noteStates
    /\ heard[n] /\ noteStates[n].sungDuration = Duration(n) /\ Duration(n) > 0

\* C7: after resetScore the score, currentMaxScore and the four counters are
\* 0, lastFeedback is null, goldenNoteHit false, every note state has
\* sungDuration 0 and isScored false, and these, lastTime, totalMaxScore and
\* the note states are those of a useScoring built for the same lines,
\* difficulty and player.
C7_ResetIsFresh ==
  [][ ResetStep =>
        LET f == useScoring(lines, difficulty, selectedPlayer) IN
        /\ score' = 0 /\ currentMaxScore' = 0
        /\ noteStats'.ok = 0 /\ noteStats'.good = 0
        /\ noteStats'.excellent = 0 /\ noteStats'.perfect = 0
        /\ lastFeedback' = Null /\ goldenNoteHit' = FALSE
        /\ \A n \in DOMAIN noteStates' :
             noteStates'[n].sungDuration = 0 /\ ~noteStates'[n].isScored
        /\ score' = f.score /\ currentMaxScore' = f.currentMaxScore
        /\ totalMaxScore' = f.totalMaxScore /\ noteStats' = f.noteStats
        /\ lastFeedback' = f.lastFeedback /\ goldenNoteHit' = f.goldenNoteHit
        /\ lastTime' = f.lastTime
        /\ \A n \in DOMAIN f.noteStates :
             n \in DOMAIN noteStates' /\ noteStates'[n] = f.noteStates[n]
    ]_vars

\* the state after a reset that followed a 'perfect' grade: nothing is scored
\* and both timers of the earlier play are still pending
C7_Witness ==
  /\ feedbackTimeout /\ goldenTimeouts > 0
  /\ score = 0 /\ noteStats = ZeroStats /\ lastFeedback = Null /\ ~goldenNoteHit
  /\ \A n \in DOMAIN noteStates : ~noteStates[n].isScored /\ noteStates[n].sungDuration = 0

\* C8: after a reset the score and the counters are those of a fresh instance
\* fed the same ticks since the reset.
C8_ReplayAsFresh ==
  fresh # Null => score = fresh[1].score /\ noteStats = fresh[1].noteStats

\* the replay scored a 'perfect' while a golden-pulse timer of the play before
\* the reset was still pending
C8_Witness ==
  /\ fresh # Null
  /\ score > 0 /\ noteStats.perfect = 1
  /\ goldenTimeouts > fresh[1].goldenTimeouts

\* the sum of points x (2 if golden else 1) over the selected notes
ClaimTotal ==
  SetSum(Selected, [n \in Selected |->
                      settings(difficulty).points
                        * (IF NoteOf(n).type \in {"*", "G"} THEN 2 ELSE 1)])

\* C9: in a non-Freestyle session totalMaxScore is the sum of points x (2 if
\* golden else 1) over the selected notes and the sum of their maxScore, and
\* no tick changes it.
C9_TotalMaxScore ==
  /\ [](difficulty # "Freestyle" =>
          /\ totalMaxScore = ClaimTotal
          /\ Selected \subseteq DOMAIN noteStates
          /\ totalMaxScore = SetSum(Selected, [n \in Selected |-> noteStates[n].maxScore]))
  /\ [][currentTime' # currentTime => totalMaxScore' = totalMaxScore]_vars

\* a difficulty and a player were chosen and a note was then finalized
C9_Witness ==
  /\ difficulty = "Difícil" /\ selectedPlayer = Some(2)
  /\ totalMaxScore = 60
  /\ \E n \in Selected : IsScored(n) /\ awards[n] # << >>

\* the rank of the claim, with the given rank for Freestyle
ClaimRank(diff, total, sc, freestyle) ==
  IF diff = "Freestyle" THEN freestyle
  ELSE IF total # 0 /\ sc * 100 >= 95 * total THEN "SS"
  ELSE IF total # 0 /\ sc * 100 >= 90 * total THEN "S"
  ELSE IF total # 0 /\ sc * 100 >= 80 * total THEN "A"
  ELSE IF total # 0 /\ sc * 100 >= 70 * total THEN "B"
  ELSE IF total # 0 /\ sc * 100 >= 60 * total THEN "C"
  ELSE IF total # 0 /\ sc * 100 >= 40 * total THEN "D"
  ELSE "F"

\* C10 as stated: Freestyle difficulty yields the rank "Freestyle".
C10_RankFreestyle ==
  rank # Null => rank[1] = ClaimRank(difficulty, totalMaxScore, score, "Freestyle")

\* C10: the final rank is "FREESTYLE" in Freestyle difficulty whatever the
\* numbers; otherwise SS, S, A, B, C, D for score / totalMaxScore >= 0.95,
\* 0.90, 0.80, 0.70, 0.60, 0.40, else F (F also when totalMaxScore is 0);
\* 0.96 gives SS and 0.85 gives A.
C10_RankBands ==
  rank # Null =>
    /\ rank[1] = ClaimRank(difficulty, totalMaxScore, score, "FREESTYLE")
    /\ (difficulty # "Freestyle" /\ totalMaxScore > 0 /\ score * 100 = 96 * totalMaxScore)
          => rank[1] = "SS"
    /\ (difficulty # "Freestyle" /\ totalMaxScore > 0 /\ score * 100 = 85 * totalMaxScore)
          => rank[1] = "A"

\* the rank of a Freestyle session with accumulated numbers of 96 percent
C10_Witness ==
  /\ rank = Some("FREESTYLE")
  /\ totalMaxScore > 0 /\ score * 100 = 96 * totalMaxScore

(***************************************************************************)
(* Properties of the chart parser.                                         *)
(***************************************************************************)
\* the number the last '#<key>:' line of a chart gives to key (any letter
\* case), 0 without such a line
RECURSIVE ClaimMeta(_, _)
ClaimMeta(c, key) ==
  IF c = << >> THEN Num(0)
  ELSE LET l == c[Len(c)]
       IN IF l.kind = "#" /\ ToUpperCase(l.f1) = key
          THEN ParseFloat(IF l.f2 = "" THEN "0" ELSE l.f2)
          ELSE ClaimMeta(SubSeq(c, 1, Len(c) - 1), key)

\* the notes of a Song, line after line
RECURSIVE NotesOfLines(_)
NotesOfLines(ls) ==
  IF ls = << >> THEN << >> ELSE LineNotes(Head(ls)) \o NotesOfLines(Tail(ls))

\* the chart has a BPM above 0 and a numeric GAP
TimedChart ==
  /\ IsFinite(ClaimMeta(chart, "BPM")) /\ ClaimMeta(chart, "BPM").v > 0
  /\ IsFinite(ClaimMeta(chart, "GAP"))

\* (beat x 60) / (bpm x 4) + gap / 1000 seconds, in milliseconds
ClaimTime(beat, bpm, gap) == Num((beat * 60 * 1000) \div (bpm * 4) + gap)

\* the GAP values of the model and their text
GapValues == {0, 500, 1000}
GapText(g) == CASE g = 0 -> "0" [] g = 500 -> "500" [] g = 1000 -> "1000"

\* every note with numeric startBeat and duration has the times of the formula
TimesAsClaimed ==
  LET bpm == ClaimMeta(chart, "BPM").v
      gap == ClaimMeta(chart, "GAP").v
      notes == NotesOfLines(song[1].lines)
  IN \A i \in 1..Len(notes) :
       (IsFinite(notes[i].startBeat) /\ IsFinite(notes[i].duration)) =>
         /\ notes[i].startTime = ClaimTime(notes[i].startBeat.v, bpm, gap)
         /\ notes[i].endTime = ClaimTime(notes[i].startBeat.v + notes[i].duration.v, bpm, gap)

\* with BPM 200 and GAP 0 the note ': 0 4 0 Hi' starts at 0 and ends at the given time
ExampleAsClaimed(endTime) ==
  LET notes == NotesOfLines(song[1].lines)
  IN (ClaimMeta(chart, "BPM") = Num(200) /\ ClaimMeta(chart, "GAP") = Num(0)) =>
       \A i \in 1..Len(notes) :
         chart[notes[i].at] = NoteLine(":", "0", "4", "0", "Hi") =>
           notes[i].startTime = Num(0) /\ notes[i].endTime = Num(endTime)

\* the same chart with another GAP has every time shifted by the difference
GapShiftAsClaimed ==
  LET gap == ClaimMeta(chart, "GAP").v
      notes == NotesOfLines(song[1].lines)
  IN \A g \in GapValues :
       LET notes2 == NotesOfLines(parseUltraStar(Append(chart, MetaLine("GAP", GapText(g)))).lines)
       IN /\ Len(notes2) = Len(notes)
          /\ \A i \in 1..Len(notes) :
               /\ notes2[i].at = notes[i].at
               /\ notes2[i].startTime = JsAdd(notes[i].startTime, Num(g - gap))
               /\ notes2[i].endTime = JsAdd(notes[i].endTime, Num(g - gap))
               /\ JsSub(notes2[i].endTime, notes2[i].startTime)
                    = JsSub(notes[i].endTime, notes[i].startTime)

\* C11 as stated: with BPM > 0 every note has startTime = (startBeat x 60) /
\* (bpm x 4) + gap / 1000 and endTime = ((startBeat + duration) x 60) / (bpm x
\* 4) + gap / 1000, with BPM 200 and GAP 0 the note ': 0 4 0 Hi' has the times
\* 0.0 and 0.6, and changing GAP by g ms shifts every time by g / 1000 s.
C11_TimesWithExample ==
  (song # Null /\ TimedChart) =>
    TimesAsClaimed /\ ExampleAsClaimed(600) /\ GapShiftAsClaimed

\* C11: with BPM > 0 every note has startTime = (startBeat x 60) / (bpm x 4)
\* + gap / 1000 and endTime = ((startBeat + duration) x 60) / (bpm x 4) + gap /
\* 1000; with BPM 200 and GAP 0 the note ': 0 4 0 Hi' has the times 0.0 and
\* 0.3; changing only GAP by g ms shifts every startTime and endTime by
\* g / 1000 s and leaves every duration unchanged.
C11_NoteTimes ==
  (song # Null /\ TimedChart) =>
    TimesAsClaimed /\ ExampleAsClaimed(300) /\ GapShiftAsClaimed

\* a chart with BPM 300 and GAP 1000 was parsed: its golden note '* 8 2 5'
\* runs from 1.4 s to 1.5 s, and ': 0 4 0 Hi' from 1.0 s to 1.2 s
C11_Witness ==
  /\ song # Null
  /\ ClaimMeta(chart, "BPM") = Num(300) /\ ClaimMeta(chart, "GAP") = Num(1000)
  /\ \E i \in 1..Len(NotesOfLines(song[1].lines)) :
       LET n == NotesOfLines(song[1].lines)[i]
       IN n.type = "*" /\ n.startTime = Num(1400) /\ n.endTime = Num(1500)
  /\ \E i \in 1..Len(NotesOfLines(song[1].lines)) :
       LET n == NotesOfLines(song[1].lines)[i]
       IN n.text = "Hi" /\ n.startTime = Num(1000) /\ n.endTime = Num(1200)

\* C12: for a chart whose BPM is 0 or missing, no line and no note with
\* numeric startBeat and duration has a startTime or endTime that is NaN or
\* an infinity.
C12_NoDivisionByZero ==
  (song # Null /\ ClaimMeta(chart, "BPM") = Num(0)) =>
    /\ \A i \in 1..Len(song[1].lines) :
         (\A j \in 1..Len(LineNotes(song[1].lines[i])) :
            /\ IsFinite(LineNotes(song[1].lines[i])[j].startBeat)
            /\ IsFinite(LineNotes(song[1].lines[i])[j].duration)) =>
           IsFinite(song[1].lines[i].startTime) /\ IsFinite(song[1].lines[i].endTime)
    /\ \A i \in 1..Len(NotesOfLines(song[1].lines)) :
         LET n == NotesOfLines(song[1].lines)[i]
         IN (IsFinite(n.startBeat) /\ IsFinite(n.duration)) =>
              IsFinite(n.startTime) /\ IsFinite(n.endTime)

\* a <= b for two times
TimeLeq(a, b) == a = b \/ JsLess(a, b)

\* the position in the chart of the first note line of a line of the Song
FirstAt(line) == LineNotes(line)[1].at

\* C13: the lines of the returned Song are in non-decreasing startTime order,
\* and lines of equal startTime are in the order of the chart.
C13_LinesSorted ==
  song # Null =>
    \A i, j \in 1..Len(song[1].lines) :
      i < j =>
        /\ TimeLeq(song[1].lines[i].startTime, song[1].lines[j].startTime)
        /\ song[1].lines[i].startTime = song[1].lines[j].startTime =>
             FirstAt(song[1].lines[i]) < FirstAt(song[1].lines[j])

\* a chart that gives player 1's line before player 2's earlier line was
\* parsed: the Song has player 2's line first
C13_Witness ==
  /\ song # Null
  /\ Len(song[1].lines) = 2
  /\ song[1].lines[1].player = 2 /\ song[1].lines[2].player = 1
  /\ FirstAt(song[1].lines[1]) > FirstAt(song[1].lines[2])
  /\ JsLess(song[1].lines[1].startTime, song[1].lines[2].startTime)

\* C14: with BPM > 0 every note of the returned Song whose startBeat and
\* duration fields are integers has endTime >= startTime.
C14_EndNotBeforeStart ==
  (song # Null /\ TimedChart) =>
    \A i \in 1..Len(NotesOfLines(song[1].lines)) :
      LET n == NotesOfLines(song[1].lines)[i]
      IN (IsFinite(n.startBeat) /\ IsFinite(n.duration)) => TimeLeq(n.startTime, n.endTime)

\* the position of the first 'E' line of the chart, 0 if it has none
FirstEnd ==
  IF \E i \in 1..Len(chart) : chart[i].kind = "E"
  THEN CHOOSE i \in 1..Len(chart) :
         chart[i].kind = "E" /\ \A j \in 1..(i - 1) : chart[j].kind # "E"
  ELSE 0

\* C15: an 'E' line ends the song: the Song is the one of the chart cut
\* after its first 'E' line, so the notes buffered before it are in the Song
\* and no note line after it contributes a note.
C15_EndTerminates ==
  (song # Null /\ FirstEnd > 0) =>
    /\ song[1] = parseUltraStar(SubSeq(chart, 1, FirstEnd))
    /\ \A i \in 1..Len(NotesOfLines(song[1].lines)) :
         NotesOfLines(song[1].lines)[i].at < FirstEnd

\* a 'P1' or 'P2' line
IsPlayerMarker(l) == l.kind = "P" /\ ParseInt(l.f1) \in {Num(1), Num(2)}

\* the player of the last 'P1' / 'P2' line among the first n lines of the
\* chart, player 1 without such a line
RECURSIVE ClaimPlayer(_)
ClaimPlayer(n) ==
  IF n = 0 THEN 1
  ELSE IF IsPlayerMarker(chart[n]) THEN ParseInt(chart[n].f1).v
  ELSE ClaimPlayer(n - 1)

\* C16: every line of the Song carries the player of the most recent 'P1' /
\* 'P2' line before its notes (player 1 if there is none), and no 'P1' / 'P2'
\* line lies between two notes of the same line: the marker flushed the
\* pending word and line, which keeps the previous player.
C16_PlayerOfLine ==
  song # Null =>
    \A i \in 1..Len(song[1].lines) :
      LET notes == LineNotes(song[1].lines[i])
      IN /\ song[1].lines[i].player = ClaimPlayer(FirstAt(song[1].lines[i]))
         /\ \A j, k \in 1..Len(notes) :
              \A m \in 1..Len(chart) :
                (notes[j].at < m /\ m < notes[k].at) => ~IsPlayerMarker(chart[m])

\* a chart with a note line, then 'P2', then a note line was parsed: the
\* Song has the first note in a line of player 1 and the second in a line of
\* player 2
C16_Witness ==
  /\ song # Null
  /\ \E i, j \in 1..Len(song[1].lines) :
       /\ song[1].lines[i].player = 1 /\ song[1].lines[j].player = 2
       /\ FirstAt(song[1].lines[j]) = FirstAt(song[1].lines[i]) + 2
       /\ chart[FirstAt(song[1].lines[i]) + 1] = PlayerLine("2")

\* a note line with a field that is not a number
IsMalformed(l) ==
  l.kind = "note" /\ NaN \in {ParseInt(l.f1), ParseInt(l.f2), ParseInt(l.f3)}

\* a line that is malformed or begins with none of '#', 'P1' / 'P2', a note
\* marker, '-' or 'E'
IsSkippable(l) ==
  \/ l.kind = "other"
  \/ l.kind = "P" /\ ~IsPlayerMarker(l)
  \/ IsMalformed(l)

\* a chart without its line m
WithoutLine(c, m) == SubSeq(c, 1, m - 1) \o SubSeq(c, m + 1, Len(c))

\* a Song without the chart positions kept with its notes
NoteContent(n) ==
  [type |-> n.type, startBeat |-> n.startBeat, duration |-> n.duration, pitch |-> n.pitch,
   text |-> n.text, isExtension |-> n.isExtension,
   startTime |-> n.startTime, endTime |-> n.endTime]
LineContent(line) ==
  [player |-> line.player, startTime |-> line.startTime, endTime |-> line.endTime,
   words |-> [i \in 1..Len(line.words) |->
                [j \in 1..Len(line.words[i]) |-> NoteContent(line.words[i][j])]]]
SongContent(s) ==
  [metadata |-> s.metadata, lines |-> [i \in 1..Len(s.lines) |-> LineContent(s.lines[i])]]

\* C17: a line that is malformed or begins with none of the markers
\* contributes nothing: the Song is the one of the chart without that line.
C17_SkippedLines ==
  song # Null =>
    \A m \in 1..Len(chart) :
      IsSkippable(chart[m]) =>
        SongContent(song[1]) = SongContent(parseUltraStar(WithoutLine(chart, m)))

(***************************************************************************)
(* Properties of the pitch detector.                                       *)
(***************************************************************************)
\* the last n elements of a sequence
LastOf(s, n) == SubSeq(s, Len(s) - n + 1, Len(s))

\* the median of a non-empty buffer: the smallest sample with at least half
\* of the samples at or below it (the middle one of three, the lower one of two)
ClaimMedian(buffer) ==
  LET atOrBelow(m) == Cardinality({i \in 1..Len(buffer) : buffer[i] <= m})
      below(m) == Cardinality({i \in 1..Len(buffer) : buffer[i] < m})
  IN CHOOSE m \in {buffer[i] : i \in 1..Len(buffer)} :
       2 * atOrBelow(m) >= Len(buffer) /\ 2 * below(m) < Len(buffer)

\* C18: after n valid samples since the last 'no pitch' frame or stop, the
\* buffer holds the last min(n, 3) of them in arrival order and the emitted
\* value is the median of the buffer; after 60, 72, 61 it is 61.
C18_MedianOfLastThree ==
  /\ pitchBuffer = LastOf(fed, Min(Len(fed), PITCH_BUFFER_SIZE))
  /\ fed # << >> => rawPitch = Some(ClaimMedian(pitchBuffer))
  /\ fed = << 60, 72, 61 >> => rawPitch = Some(61)

\* 60, 72, 61 and then 72 were fed: the buffer dropped the 60 and the
\* emitted value is 72
C18_Witness ==
  /\ fed = << 60, 72, 61, 72 >>
  /\ pitchBuffer = << 72, 61, 72 >>
  /\ rawPitch = Some(72)

\* a frame yields 'no pitch': autoCorrelate returned -1, or a frequency
\* outside the open band 50-2000 Hz
ClaimNoPitch(freq) == freq = -1 \/ freq <= 50 \/ freq >= 2000

\* the latest frame yielded 'no pitch'
AfterNoPitch == lastFreq # Null /\ ClaimNoPitch(lastFreq[1])

\* C19: after a frame that yields 'no pitch' the smoothing buffer is empty
\* and rawPitch is null, and the first valid sample after it is emitted
\* unchanged, whatever was received before.
C19_NoPitchEmptiesBuffer ==
  /\ [](AfterNoPitch => pitchBuffer = << >> /\ rawPitch = Null)
  /\ [][ (AfterNoPitch /\ lastFreq' # Null /\ ~ClaimNoPitch(lastFreq'[1])) =>
           rawPitch' = Some(frequencyToMidi(lastFreq'[1])) ]_vars

\* a frame at the upper end of the band, 2000 Hz, emptied the buffer of a
\* running detector
C19_Witness ==
  /\ lastFreq = Some(2000)
  /\ loops > 0 /\ ~stopped
  /\ pitchBuffer = << >> /\ rawPitch = Null

\* C20: once stop() was called, and whenever a start() whose microphone
\* request was pending completes after it, no stream has live tracks, no
\* updatePitch frame is scheduled, the smoothing buffer is empty and rawPitch
\* is null; and stop() changes no note state and no score.
C20_StopReleases ==
  /\ [](stopped => /\ OpenStreams = 0
                   /\ loops = 0
                   /\ pitchBuffer = << >>
                   /\ rawPitch = Null)
  /\ [][Stop => UNCHANGED << noteStates, score >>]_vars

\* the ids of the notes of the lines of ls whose player tag is p or is unset,
\* and of every line when no player is selected
ClaimedNotes(ls, p) ==
  UNION { {n.id : n \in NoteSet(<< ls[i] >>)} :
            i \in {j \in 1..Len(ls) : p = NoPlayer \/ ls[j].player = p \/ ls[j].player = NoPlayer} }

\* the points the claimed notes count in totalMaxScore
ClaimedTotal ==
  LET S == ClaimedNotes(lines, selectedPlayer)
  IN SetSum(S, [n \in S |-> settings(difficulty).points
                              * (IF NoteOf(n).type \in {"*", "G"} THEN 2 ELSE 1)])

\* C21: the notes that are scored and counted in totalMaxScore are the notes
\* of the lines whose player tag is the selected player or is unset (every
\* note when no player is selected): the notes the tick goes through are these
\* notes in non-decreasing startTime order, totalMaxScore is the sum over
\* them, a tick changes the state of no other note and finalizes each of them
\* that has aged.
C21_SelectedNotes ==
  /\ [](LET notes == allNotes(lines, selectedPlayer) IN
          /\ {notes[i].id : i \in 1..Len(notes)} = ClaimedNotes(lines, selectedPlayer)
          /\ Len(notes) = Cardinality(ClaimedNotes(lines, selectedPlayer))
          /\ \A i \in 1..Len(notes) - 1 : notes[i].startTime <= notes[i + 1].startTime
          /\ totalMaxScore = ClaimedTotal)
  /\ [][ currentTime' # currentTime =>
           /\ \A n \in DOMAIN noteStates \ ClaimedNotes(lines, selectedPlayer) :
                 n \in DOMAIN noteStates' /\ noteStates'[n] = noteStates[n]
           /\ ProcessedTick =>
                \A n \in ClaimedNotes(lines, selectedPlayer) :
                  NoteOf(n).endTime + TRAILING_WINDOW < currentTime' =>
                    n \in DOMAIN noteStates' /\ noteStates'[n].isScored
       ]_vars

\* player 1 is selected on the duet chart and the song was played through: the
\* notes of player 1 and of the untagged line are scored, the note of player 2
\* is not
C21_Witness ==
  /\ lines \in DuetSongs /\ selectedPlayer = Some(1) /\ isPlaying
  /\ lastTime = MaxTime
  /\ IsScored(5) /\ IsScored(8) /\ ~IsScored(7)
  /\ noteStates[7].sungDuration = 0
  /\ totalMaxScore = 30

\* the positions of the note lines of a chart
NotePositions(c) == {i \in 1..Len(c) : c[i].kind = "note"}

\* the position of the last note line before position i, 0 if there is none
PreviousNote(c, i) ==
  LET before == {j \in NotePositions(c) : j < i}
  IN IF before = {} THEN 0 ELSE CHOOSE j \in before : \A k \in before : k <= j

\* a raw line that ends the current line: '-', 'E', 'P1' or 'P2'
EndsLine(l) == l.kind \in {"-", "E"} \/ IsPlayerMarker(l)

\* the note line at position i begins a word: its raw text has a leading
\* space, or the raw text of the previous note has a trailing space, or it is
\* the first note of its line
BeginsWord(c, i) ==
  \/ StartsWithSpace(c[i].text)
  \/ PreviousNote(c, i) # 0 /\ EndsWithSpace(c[PreviousNote(c, i)].text)
  \/ PreviousNote(c, i) = 0
  \/ \E k \in PreviousNote(c, i) + 1 .. i - 1 : EndsLine(c[k])

\* the word begun by the note line at position i: the note lines from i on,
\* up to the next one that begins a word
ClaimWord(c, i) ==
  {j \in NotePositions(c) :
     j >= i /\ \A k \in NotePositions(c) : (i < k /\ k <= j) => ~BeginsWord(c, k)}

\* the words of a Song, each as the sequence of the positions of its notes
SongWords(s) ==
  UNION { {[k \in 1..Len(s.lines[i].words[j]) |-> s.lines[i].words[j][k].at] :
             j \in 1..Len(s.lines[i].words)} : i \in 1..Len(s.lines) }

\* C22: the words of the returned Song are the words the rule gives: one
\* word per note line that begins a word (leading space, trailing space of the
\* previous note, or first note of its line), holding in chart order that note
\* and the note lines after it up to the next one that begins a word.
C22_WordGrouping ==
  song # Null =>
    /\ \A w \in SongWords(song[1]) : \A k \in 1..Len(w) - 1 : w[k] < w[k + 1]
    /\ {{w[k] : k \in 1..Len(w)} : w \in SongWords(song[1])}
         = {ClaimWord(chart, i) : i \in {j \in NotePositions(chart) : BeginsWord(chart, j)}}

\* a line of the Song has a word of two notes, then a word begun only because
\* the previous note's raw text ended with a space
C22_Witness ==
  /\ song # Null
  /\ \E i \in 1..Len(song[1].lines) :
       LET words == song[1].lines[i].words
       IN /\ Len(words) = 2
          /\ Len(words[1]) = 2
          /\ EndsWithSpace(chart[words[1][2].at].text)
          /\ ~StartsWithSpace(chart[words[2][1].at].text)

\* the positions of the notes of a Song, line after line and word after word
SongPositions(s) ==
  LET notes == NotesOfLines(s.lines)
  IN [k \in 1..Len(notes) |-> notes[k].at]

\* C23: every note line of the chart is exactly one note of the returned
\* Song (the notes of the Song are the note lines of the chart, each once),
\* and the Song has no line without words and no word without notes.
C23_NoNoteLost ==
  song # Null =>
    LET at == SongPositions(song[1])
    IN /\ {at[k] : k \in 1..Len(at)} = NotePositions(chart)
       /\ \A j, k \in 1..Len(at) : at[j] = at[k] => j = k
       /\ \A i \in 1..Len(song[1].lines) :
            /\ Len(song[1].lines[i].words) > 0
            /\ \A j \in 1..Len(song[1].lines[i].words) : Len(song[1].lines[i].words[j]) > 0

\* a chart that ends with a note line, after a '-' line and another note
\* line, was parsed: the Song has both notes, in two lines
C23_Witness ==
  /\ song # Null
  /\ Len(chart) >= 3
  /\ chart[Len(chart)].kind = "note"
  /\ chart[Len(chart) - 1].kind = "-"
  /\ chart[Len(chart) - 2].kind = "note"
  /\ Len(song[1].lines) = 2
  /\ Len(SongPositions(song[1])) = 2

\* the moves of status the claim lists, and the move made by resetCalibration
ClaimedMoves ==
  { << "idle", "playing" >>, << "playing", "recording" >>,
    << "recording", "idle" >>, << "recording", "done" >> }
ResetMove == { << "done", "idle" >> }

\* status is 'done' only with at least 5 samples for each tone
DoneHasSamples ==
  status = "done" =>
    \A i \in 1..Len(calibrationNotes) :
      Len(recordedPitches[i]) >= MIN_SAMPLES_FOR_CALIBRATION

\* a step as the claim has it: the status moves as listed, samples are
\* stored only while status is 'recording' and only for the current tone, and
\* a recording that ends with fewer than 5 samples discards them and keeps
\* the tone index
CalibrationStep(moves) ==
  /\ status' # status => << status, status' >> \in moves
  /\ \A i \in 1..Len(calibrationNotes) :
       Len(recordedPitches'[i]) > Len(recordedPitches[i]) =>
         /\ status = "recording" /\ status' = "recording"
         /\ i = currentNoteIndex + 1
         /\ currentNoteIndex' = currentNoteIndex
  /\ ( /\ status = "recording" /\ status' # "recording"
       /\ Len(recordedPitches[currentNoteIndex + 1]) < MIN_SAMPLES_FOR_CALIBRATION )
     => /\ recordedPitches'[currentNoteIndex + 1] = << >>
        /\ currentNoteIndex' = currentNoteIndex
        /\ status' = "idle"

\* C24 as stated: the status only moves idle -> playing -> recording ->
\* (idle | done), samples are stored only while recording and only for the
\* current tone, a recording with fewer than 5 samples discards them and
\* keeps the tone index, and 'done' needs 5 samples for each tone.
C24_StatusMoves ==
  []DoneHasSamples /\ [][CalibrationStep(ClaimedMoves)]_vars

\* C24, amended: the same, with one more move of the status: resetCalibration
\* (offered on the result panel) takes it from 'done' back to 'idle'.
C24_StatusMovesOrReset ==
  []DoneHasSamples /\ [][CalibrationStep(ClaimedMoves \cup ResetMove)]_vars

\* the third tone is being recorded after a failed recording of it: the
\* first two tones have 5 samples each, the third has some again
C24_Witness ==
  /\ status = "recording" /\ currentNoteIndex = 2
  /\ Len(recordedPitches[1]) >= MIN_SAMPLES_FOR_CALIBRATION
  /\ Len(recordedPitches[2]) >= MIN_SAMPLES_FOR_CALIBRATION
  /\ Len(recordedPitches[3]) \in 1..MIN_SAMPLES_FOR_CALIBRATION - 1
  /\ countdown = 0

\* the number of feedback events since the last reset: the finalizations
\* that gave a grade
FeedbackEvents ==
  SetSum(NoteIds, [n \in NoteIds |->
                     Cardinality({i \in 1..Len(awards[n]) : awards[n][i].grade # "none"})])

\* C25: between two resets every feedback event carries a counter strictly
\* greater than the counter of the event before it, also when the 1 s timer
\* has cleared that event.  The counters are at least 1, so the k-th event
\* of a session carries a counter of at least k: the feedback on display
\* carries a counter that is at least the number of events of the session.
C25_CounterIncreases ==
  lastFeedback # Null => lastFeedback[1].count >= FeedbackEvents

\* C26: in every reachable state 0 <= score <= currentMaxScore <=
\* totalMaxScore, and currentMaxScore is the sum of maxScore over the notes
\* whose isScored flag is set.
C26_ScoreBounds ==
  /\ 0 <= score
  /\ score <= currentMaxScore
  /\ currentMaxScore <= totalMaxScore
  /\ LET scored == {n \in DOMAIN noteStates : noteStates[n].isScored}
     IN currentMaxScore = SetSum(scored, [n \in scored |-> noteStates[n].maxScore])

\* a step of the currentTime watcher for the new clock value
ClockUpdate == \E p \in Pitches : TimeUpdate(currentTime', p)

\* C27: a clock update received while isPlaying is false, or with dt <= 0
\* (a time not above the remembered last time), changes no note's
\* sungDuration or isScored and leaves score, currentMaxScore, noteStats and
\* lastFeedback unchanged; only the remembered last time is updated.
C27_IdleUpdate ==
  [][ (ClockUpdate /\ (~isPlaying \/ currentTime' <= lastTime)) =>
        /\ DOMAIN noteStates' = DOMAIN noteStates
        /\ \A n \in DOMAIN noteStates :
             /\ noteStates'[n].sungDuration = noteStates[n].sungDuration
             /\ noteStates'[n].isScored = noteStates[n].isScored
        /\ score' = score
        /\ currentMaxScore' = currentMaxScore
        /\ noteStats' = noteStats
        /\ lastFeedback' = lastFeedback
        /\ lastTime' = currentTime'
    ]_vars

\* a note was sung in part, then the clock went past its window while paused:
\* the note is neither credited nor finalized
C27_Witness ==
  /\ ~isPlaying /\ lastTime = currentTime
  /\ \E n \in Selected :
       /\ ~IsScored(n)
       /\ noteStates[n].sungDuration > 0
       /\ noteStates[n].sungDuration < Duration(n)
       /\ currentTime > NoteOf(n).endTime + TRAILING_WINDOW

Max(a, b) == IF a >= b THEN a ELSE b

\* the playback time between the clock values a and b (a < b) that lies in
\* the window [startTime, endTime + 0.15] of note n
TimeInWindow(a, b, n) ==
  Max(0, Min(b, NoteOf(n).endTime + TRAILING_WINDOW) - Max(a, NoteOf(n).startTime))

\* C28: the sungDuration credited to a note never exceeds the playback time
\* that elapsed inside the note's window [startTime, endTime + 0.15] while a
\* hitting pitch was present: a tick from the remembered last time to the new
\* clock value adds to sungDuration no more than the part of that interval
\* that lies in the window, and no other step adds to it.
C28_CreditWithinElapsed ==
  [][ \A n \in DOMAIN noteStates :
        n \in DOMAIN noteStates' =>
          noteStates'[n].sungDuration - noteStates[n].sungDuration
            <= IF ProcessedTick THEN TimeInWindow(lastTime, currentTime', n) ELSE 0
    ]_vars

\* type, startBeat, duration, pitch and text of the notes of a Song, word by
\* word and line by line
NoteFields(n) ==
  [type |-> n.type, startBeat |-> n.startBeat, duration |-> n.duration,
   pitch |-> n.pitch, text |-> n.text]
SongFields(s) ==
  [i \in 1..Len(s.lines) |->
     [j \in 1..Len(s.lines[i].words) |->
        [k \in 1..Len(s.lines[i].words[j]) |-> NoteFields(s.lines[i].words[j][k])]]]

\* C29: for the Song s returned by parseUltraStar,
\* parseUltraStar(stringifyUltraStar(s)) has the same metadata, the same
\* sequence of lines, the same grouping of notes into words and, for every
\* note, the same type, startBeat, duration, pitch and text.
C29_RoundTrip ==
  song # Null =>
    LET again == parseUltraStar(stringifyUltraStar(song[1]))
    IN /\ again.metadata = song[1].metadata
       /\ SongFields(again) = SongFields(song[1])

\* C30: for one detector and any sequence of start() and stop() calls, also
\* two start() calls without a stop() between them, at most one updatePitch
\* animation-frame loop is scheduled and at most one microphone stream is open
\* (so a display frame pushes at most one sample into the smoothing buffer).
C30_SingleLoop ==
  /\ loops <= 1
  /\ OpenStreams <= 1

====
